---------------------------- MODULE Spec2Model ----------------------------
(***************************************************************************)
(* A model of src/app.py: the invoice text-to-table core of the            *)
(* application.                                                            *)
(*                                                                         *)
(*   - process_files, the batch loop, as a state machine with one action   *)
(*     per step of a document's processing;                                *)
(*   - the format detectors is_forlan_co .. is_gustavo_gamboa;             *)
(*   - parse_number_latam, character by character;                         *)
(*   - the stable sort of the line table.                                  *)
(*                                                                         *)
(* Representation.  A document text is described by what the code          *)
(* observes of it: the phrases it holds (the detectors and                 *)
(* detect_currency test substrings of it), the captures of the header      *)
(* patterns, the lines that match an item grammar, and its length.         *)
(* Strings that are compared for order (the sort keys) are ordered by the  *)
(* code points of their characters, as Python orders str.                  *)
(***************************************************************************)
EXTENDS Integers, Sequences, FiniteSets, TLC

VARIABLES
    \* ---- process_files: arguments
    files,          \* the uploaded files, in upload order
    include_audit,  \* argument include_audit
    audit_chars,    \* argument audit_chars
    \* ---- process_files: control and locals
    idx,            \* number of files fetched by the for loop so far
    pc,             \* position of the loop body for file idx
    pdf_bytes,      \* local pdf_bytes
    text,           \* local text
    cur,            \* local cur
    sym,            \* local sym
    branch,         \* the arm of the if/elif chain that was taken
    inv,            \* local inv
    items,          \* local items
    err,            \* the exception being handled (str(e))
    fin_rows,       \* local fin_rows
    line_rows,      \* local line_rows
    audit_rows,     \* local audit_rows
    calls,          \* extractor functions called for file idx (trace)
    raised,         \* the files whose try body raised (trace)
    fin_src,        \* per row of fin_rows, the file it was appended for (trace)
    line_src,       \* the same for line_rows
    audit_src,      \* the same for audit_rows
    df_lines_src,   \* the same for the rows of df_lines
    df_lines_ix,    \* per row of df_lines, its position in line_rows (trace)
    n_items,        \* per file, the number of items its line parser returned (trace)
    \* ---- process_files: the returned tables
    df_fin,
    df_lines,
    df_audit,
    \* ---- parse_number_latam called on its own
    num_pc,
    num_in,
    num_out,
    num_src,        \* the decimal and style num_in was written from, if any
    \* ---- normalize_text called on its own, then on its result
    nt_pc,
    nt_in,
    nt_once,
    nt_twice,
    \* ---- the format detectors called on their own
    cls_pc,
    cls_text,
    cls_out,
    \* ---- a multi-line item parser called on its own
    ml_pc,          \* where the parser is: "outer", "inner", "returned"
    ml_fn,          \* "TRIBU" or "CICLO": which of the two parsers runs
    ml_text,        \* its argument, as the sequence of the lines of the text
    ln_list,
    ml_i,
    ml_j,
    blob,
    out

varsBatch == <<files, include_audit, audit_chars, idx, pc, pdf_bytes, text,
               cur, sym, branch, inv, items, err, fin_rows, line_rows,
               audit_rows, calls, raised, fin_src, line_src, audit_src,
               df_lines_src, df_lines_ix, n_items, df_fin, df_lines, df_audit>>
varsNum == <<num_pc, num_in, num_out, num_src>>
varsCls == <<cls_pc, cls_text, cls_out>>
varsNorm == <<nt_pc, nt_in, nt_once, nt_twice>>
varsItems == <<ml_pc, ml_fn, ml_text, ln_list, ml_i, ml_j, blob, out>>
vars == <<varsBatch, varsNum, varsCls, varsNorm, varsItems>>

-----------------------------------------------------------------------------
(* Bounds of the model *)

\* longest batch of uploaded files
MaxFiles == 3
\* longest string handed to parse_number_latam, the two spec examples aside
MaxNumLen == 4
\* most digits in the integer part of a decimal that is written and parsed back
MaxIntDigits == 7
\* longest text handed to normalize_text
MaxTextLen == 5
\* the longest text handed to a multi-line item parser, in lines
MaxScanLines == 4

-----------------------------------------------------------------------------
(* Python values *)

\* None
None == <<"none">>
\* a float, as the exact decimal num / 10^scale, without trailing zeros
Float(num, scale) == <<"float", num, scale>>
\* the str "" held by a cell of a numeric column
Blank == <<"str", "">>

Min(a, b) == IF a < b THEN a ELSE b
Max(a, b) == IF a > b THEN a ELSE b

-----------------------------------------------------------------------------
(* str: characters, order *)

Digits == {"0", "1", "2", "3", "4", "5", "6", "7", "8", "9"}

\* ord(c) for the characters of the sort keys
Ord(c) ==
    CASE c = "." -> 46
      [] c = "0" -> 48 [] c = "1" -> 49 [] c = "2" -> 50 [] c = "3" -> 51
      [] c = "4" -> 52 [] c = "5" -> 53 [] c = "6" -> 54 [] c = "7" -> 55
      [] c = "8" -> 56 [] c = "9" -> 57
      [] c = "a" -> 97 [] c = "b" -> 98 [] c = "d" -> 100 [] c = "f" -> 102
      [] c = "p" -> 112

\* the characters of the strings used as sort keys
Chars(s) ==
    CASE s = ""      -> <<>>
      [] s = "a.pdf" -> <<"a", ".", "p", "d", "f">>
      [] s = "b.pdf" -> <<"b", ".", "p", "d", "f">>
      [] s = "1"     -> <<"1">>
      [] s = "2"     -> <<"2">>
      [] s = "3"     -> <<"3">>
      [] s = "4"     -> <<"4">>
      [] s = "5"     -> <<"5">>
      [] s = "6"     -> <<"6">>
      [] s = "7"     -> <<"7">>
      [] s = "8"     -> <<"8">>
      [] s = "10"    -> <<"1", "0">>
      [] s = "001"   -> <<"0", "0", "1">>
      [] s = "002"   -> <<"0", "0", "2">>
      [] s = "45"    -> <<"4", "5">>
      [] s = "9"     -> <<"9">>

\* Python's s < t on str: lexicographic by code point, a proper prefix first
RECURSIVE SeqLess(_, _)
SeqLess(a, b) ==
    IF b = <<>> THEN FALSE
    ELSE IF a = <<>> THEN TRUE
    ELSE IF Ord(Head(a)) # Ord(Head(b)) THEN Ord(Head(a)) < Ord(Head(b))
    ELSE SeqLess(Tail(a), Tail(b))

StrLess(s, t) == SeqLess(Chars(s), Chars(t))

\* str(n) for a line counter
IntToStr(n) ==
    CASE n = 1 -> "1" [] n = 2 -> "2" [] n = 3 -> "3" [] n = 4 -> "4"
      [] n = 5 -> "5" [] n = 6 -> "6" [] n = 7 -> "7" [] n = 8 -> "8"
      [] n = 9 -> "9" [] n = 10 -> "10"


-----------------------------------------------------------------------------
(* normalize_text.  A text is a sequence of characters. *)

\* the no-break space U+00A0
NBSP == "U+00A0"

\* the characters str.strip() takes off, among those of the texts
WhiteSpace == {" ", "\t", "\n", "\r", NBSP}

\* re.sub(r"[ \t]+", " ", t)
RECURSIVE CollapseBlanks(_)
CollapseBlanks(t) ==
    IF t = <<>> THEN <<>>
    ELSE IF Head(t) \in {" ", "\t"}
         THEN IF Len(t) > 1 /\ t[2] \in {" ", "\t"}
              THEN CollapseBlanks(Tail(t))
              ELSE <<" ">> \o CollapseBlanks(Tail(t))
         ELSE <<Head(t)>> \o CollapseBlanks(Tail(t))

\* re.sub(r"\n{3,}", "\n\n", t)
RECURSIVE CollapseNewlines(_)
CollapseNewlines(t) ==
    IF t = <<>> THEN <<>>
    ELSE IF Len(t) >= 3 /\ t[1] = "\n" /\ t[2] = "\n" /\ t[3] = "\n"
         THEN CollapseNewlines(Tail(t))
         ELSE <<Head(t)>> \o CollapseNewlines(Tail(t))

\* t.strip()
RECURSIVE StripWhiteSpace(_)
StripWhiteSpace(t) ==
    IF t = <<>> THEN <<>>
    ELSE IF Head(t) \in WhiteSpace THEN StripWhiteSpace(Tail(t))
    ELSE IF t[Len(t)] \in WhiteSpace THEN StripWhiteSpace(SubSeq(t, 1, Len(t) - 1))
    ELSE t

\* normalize_text with the no-break spaces replaced after the blanks are
\* collapsed; C13 fails of it
normalize_text_late_nbsp(t) ==
    IF t = None THEN <<>>
    ELSE StripWhiteSpace(CollapseNewlines(
             [i \in 1..Len(CollapseBlanks(t)) |->
                 IF CollapseBlanks(t)[i] = NBSP THEN " " ELSE CollapseBlanks(t)[i]]))

normalize_text(t) ==
    IF t = None THEN <<>>
    ELSE LET t1 == [i \in 1..Len(t) |-> IF t[i] = NBSP THEN " " ELSE t[i]]
             t2 == CollapseBlanks(t1)
             t3 == CollapseNewlines(t2)
         IN StripWhiteSpace(t3)

-----------------------------------------------------------------------------
(* parse_number_latam.  A string is a sequence of one-character strings. *)

\* str.strip(): white space off both ends
RECURSIVE LStrip(_)
LStrip(s) == IF s # <<>> /\ Head(s) = " " THEN LStrip(Tail(s)) ELSE s

RECURSIVE RStrip(_)
RStrip(s) ==
    IF s # <<>> /\ s[Len(s)] = " " THEN RStrip(SubSeq(s, 1, Len(s) - 1)) ELSE s

Strip(s) == RStrip(LStrip(s))

\* a character the class [\d,.\-] matches
IsNumChar(c) == c \in Digits \cup {",", ".", "-"}

\* re.sub(r"[^\d,.\-]", "", raw)
KeepNumChars(s) == SelectSeq(s, IsNumChar)

\* str.rfind(c): the 0-based index of the last c, -1 when there is none
RFind(s, c) ==
    IF \E i \in 1..Len(s) : s[i] = c
    THEN (CHOOSE i \in 1..Len(s) :
              s[i] = c /\ \A j \in (i + 1)..Len(s) : s[j] # c) - 1
    ELSE -1

\* str.find(c): the 0-based index of the first c, -1 when there is none
Find(s, c) ==
    IF \E i \in 1..Len(s) : s[i] = c
    THEN (CHOOSE i \in 1..Len(s) :
              s[i] = c /\ \A j \in 1..(i - 1) : s[j] # c) - 1
    ELSE -1

\* str.replace(c, "")
Remove(s, c) == SelectSeq(s, LAMBDA x : x # c)

\* str.replace(c, d), d one character
Replace(s, c, d) == [i \in 1..Len(s) |-> IF s[i] = c THEN d ELSE s[i]]

\* the number a string of decimal digits denotes
RECURSIVE DigitsToInt(_)
DigitsToInt(d) ==
    IF d = <<>> THEN 0
    ELSE 10 * DigitsToInt(SubSeq(d, 1, Len(d) - 1)) + (Ord(d[Len(d)]) - 48)

\* a decimal without trailing zeros in its fraction
RECURSIVE Normalize(_, _)
Normalize(num, scale) ==
    IF scale > 0 /\ num % 10 = 0 THEN Normalize(num \div 10, scale - 1)
    ELSE Float(num, scale)

\* the part of a numeric literal after its sign
Unsigned(s) == IF s # <<>> /\ Head(s) = "-" THEN Tail(s) ELSE s

\* float(s) accepts s: over the characters that reach it (digits, dot, minus)
\* that is an optional minus, then digits with at most one dot and at least
\* one digit
FloatAccepts(s) ==
    LET b == Unsigned(s)
    IN /\ \A i \in 1..Len(b) : b[i] \in Digits \cup {"."}
       /\ Len(SelectSeq(b, LAMBDA x : x = ".")) <= 1
       /\ \E i \in 1..Len(b) : b[i] \in Digits

\* float(s), for s that float accepts
FloatValue(s) ==
    LET b     == Unsigned(s)
        dot   == Find(b, ".")
        scale == IF dot = -1 THEN 0 ELSE Len(b) - (dot + 1)
        mant  == DigitsToInt(Remove(b, "."))
        num   == IF Head(s) = "-" THEN 0 - mant ELSE mant
    IN Normalize(num, scale)

\* an exception in place of a value
Raise(e) == <<"raise", e>>
IsRaise(v) == v[1] = "raise"

\* float(raw): the value, or ValueError
PyFloat(raw) == IF FloatAccepts(raw) THEN FloatValue(raw) ELSE Raise("ValueError")

\* float(raw) outside any try; C11 fails of it
FloatUncaught(raw) == PyFloat(raw)

\* try: return float(raw) / except: return None
FloatOrNone(raw) == IF IsRaise(PyFloat(raw)) THEN None ELSE PyFloat(raw)

\* parse_number_latam with the comma always a thousands separator;
\* C10 fails of it
parse_number_us(s) ==
    IF s = <<>> THEN None
    ELSE LET raw == KeepNumChars(Strip(s))
         IN IF raw = <<>> THEN None ELSE FloatOrNone(Remove(raw, ","))

parse_number_latam(s) ==
    IF s = <<>> THEN None
    ELSE LET raw == KeepNumChars(Strip(s))
         IN IF raw = <<>> THEN None
            ELSE LET last_comma == RFind(raw, ",")
                     last_dot   == RFind(raw, ".")
                 IN IF last_comma > last_dot
                    THEN FloatOrNone(Replace(Remove(raw, "."), ",", "."))
                    ELSE FloatOrNone(Remove(raw, ","))

-----------------------------------------------------------------------------
(* Document text.                                                          *)
(*                                                                         *)
(* A text is a record                                                      *)
(*   phrases : the phrases written in it, each as written;                 *)
(*   factura : what the invoice-number pattern of a header parser captures *)
(*             ("" when it matches nothing);                               *)
(*   total   : the characters the total-amount pattern captures;           *)
(*   lines   : its lines that match an item grammar, in order, each with   *)
(*             the grammars it matches and the captures linea, subt, imp,  *)
(*             total and the line as written (raw);                        *)
(*   len     : len(text).                                                  *)

Template == {"FORLAN", "NAVATEC", "TRIBU", "CICLO", "BRUJO", "ERIAL", "GAMBOA"}

\* str.upper() of a phrase
Upper(p) ==
    CASE p = "Factura Electrónica N°"    -> "FACTURA ELECTRÓNICA N°"
      [] p = "www.facturaelectronica.cr" -> "WWW.FACTURAELECTRONICA.CR"
      [] p = "Total Impuesto"            -> "TOTAL IMPUESTO"
      [] p = "Moneda: CRC"               -> "MONEDA: CRC"
      [] p = "Bogotá - Colombia"         -> "BOGOTÁ - COLOMBIA"
      [] p = "Pesos"                     -> "PESOS"
      [] p = "Código Moneda........ CRC" -> "CÓDIGO MONEDA........ CRC"
      [] p = " crc"                      -> " CRC"
      [] p = "Colones"                   -> "COLONES"
      [] OTHER                           -> p   \* written in capitals

\* str.lower() of a phrase
Lower(p) ==
    CASE p = "Factura Electrónica N°"        -> "factura electrónica n°"
      [] p = "www.facturaelectronica.cr"     -> "www.facturaelectronica.cr"
      [] p = "Total Impuesto"                -> "total impuesto"
      [] p = "Moneda: CRC"                   -> "moneda: crc"
      [] p = "Bogotá - Colombia"             -> "bogotá - colombia"
      [] p = "Pesos"                         -> "pesos"
      [] p = "PESOS"                         -> "pesos"
      [] p = "Código Moneda........ CRC"     -> "código moneda........ crc"
      [] p = "Colones"                       -> "colones"
      [] p = " COP"                          -> " cop"
      [] p = " CRC"                          -> " crc"
      [] p = "FERRETERIA FORLAN"             -> "ferreteria forlan"
      [] p = "FACTURA ELECTR"                -> "factura electr"
      [] p = "TOTAL A PAGAR"                 -> "total a pagar"
      [] p = "FACTURA ELECTRÓNICA N°"        -> "factura electrónica n°"
      [] p = "FACTURA ELECTRONICA N°"        -> "factura electronica n°"
      [] p = "FACTURAELECTRONICA.CR"         -> "facturaelectronica.cr"
      [] p = "WWW.HACIENDA.GO.CR"            -> "www.hacienda.go.cr"
      [] p = "TRIBU-CR"                      -> "tribu-cr"
      [] p = "COMPROBANTE"                   -> "comprobante"
      [] p = "CICLO HURACAN"                 -> "ciclo huracan"
      [] p = "NO COD PRODUCTO"               -> "no cod producto"
      [] p = "TOTAL DE LÍNEA"                -> "total de línea"
      [] p = "TOTAL DE LINEA"                -> "total de linea"
      [] p = "EL BRUJO CARIBEÑO"             -> "el brujo caribeño"
      [] p = "CÓDIGO UNIDAD CANTIDAD PRECIO" -> "código unidad cantidad precio"
      [] p = "ERIAL BQ"                      -> "erial bq"
      [] p = "LINEA SKU"                     -> "linea sku"
      [] p = "IMPUESTO"                      -> "impuesto"
      [] p = "GUSTAVO GAMBOA VILLALOBOS"     -> "gustavo gamboa villalobos"
      [] p = "# DESCRIPCIÓN / CÓDIGO"        -> "# descripción / código"
      [] OTHER                               -> p   \* no cased character

\* <<a, s>>: a is a proper substring of s
ProperSubstrings ==
    { <<"FACTURA ELECTR", "FACTURA ELECTRÓNICA N°">>,
      <<"FACTURA ELECTR", "FACTURA ELECTRONICA N°">>,
      <<"FACTURAELECTRONICA.CR", "WWW.FACTURAELECTRONICA.CR">>,
      <<"IMPUESTO", "TOTAL IMPUESTO">>,
      <<" CRC", "Moneda: CRC">>,
      <<" CRC", "Código Moneda........ CRC">> }

\* a in s
SubStr(a, s) == a = s \/ <<a, s>> \in ProperSubstrings

\* a in t
RawHas(t, a) == \E p \in t.phrases : SubStr(a, p)
\* a in t.upper()
UpperHas(t, a) == \E p \in t.phrases : SubStr(a, Upper(p))
\* a in t.lower()
LowerHas(t, a) == \E p \in t.phrases : SubStr(a, Lower(p))

\* looks_scanned's threshold
ScanThreshold == 50

\* looks_scanned with <= for <; C16 fails of it
looks_scanned_le(t) == t.len <= ScanThreshold

looks_scanned(t) == t.len < ScanThreshold

detect_currency(t) ==
    IF \/ RawHas(t, " CRC") \/ RawHas(t, "Moneda: CRC")
       \/ RawHas(t, "Código Moneda........ CRC") \/ RawHas(t, "¢")
    THEN <<"CRC", "¢">>
    ELSE IF \/ RawHas(t, " COP") \/ LowerHas(t, "pesos")
            \/ RawHas(t, "Bogotá - Colombia") \/ RawHas(t, "$")
    THEN <<"COP", "$">>
    ELSE <<"", "">>

-----------------------------------------------------------------------------
(* Format detectors *)

is_forlan_co(t) ==
    /\ UpperHas(t, "FERRETERIA FORLAN")
    /\ UpperHas(t, "FACTURA ELECTR")
    /\ UpperHas(t, "TOTAL A PAGAR")

\* is_navatec_cr deciding on one phrase; C8 fails of it
is_navatec_cr_one_anchor(t) ==
    UpperHas(t, "FACTURA ELECTRÓNICA N°") \/ UpperHas(t, "FACTURA ELECTRONICA N°")

is_navatec_cr(t) ==
    /\ (UpperHas(t, "FACTURA ELECTRÓNICA N°") \/ UpperHas(t, "FACTURA ELECTRONICA N°"))
    /\ UpperHas(t, "FACTURAELECTRONICA.CR")

is_tribu_cr_hacienda(t) ==
    /\ UpperHas(t, "WWW.HACIENDA.GO.CR")
    /\ UpperHas(t, "TRIBU-CR")
    /\ UpperHas(t, "COMPROBANTE")

is_ciclo_huracan(t) ==
    /\ UpperHas(t, "CICLO HURACAN")
    /\ UpperHas(t, "NO COD PRODUCTO")
    /\ (UpperHas(t, "TOTAL DE LÍNEA") \/ UpperHas(t, "TOTAL DE LINEA"))

is_brujo_caribeno(t) ==
    /\ UpperHas(t, "EL BRUJO CARIBEÑO")
    /\ UpperHas(t, "CÓDIGO UNIDAD CANTIDAD PRECIO")

is_erial_office_depot(t) ==
    /\ UpperHas(t, "ERIAL BQ")
    /\ UpperHas(t, "LINEA SKU")
    /\ UpperHas(t, "IMPUESTO")

is_gustavo_gamboa(t) ==
    /\ UpperHas(t, "GUSTAVO GAMBOA VILLALOBOS")
    /\ UpperHas(t, "# DESCRIPCIÓN / CÓDIGO")

\* the detector of each known template
Detects(k, t) ==
    CASE k = "FORLAN"  -> is_forlan_co(t)
      [] k = "NAVATEC" -> is_navatec_cr(t)
      [] k = "TRIBU"   -> is_tribu_cr_hacienda(t)
      [] k = "CICLO"   -> is_ciclo_huracan(t)
      [] k = "BRUJO"   -> is_brujo_caribeno(t)
      [] k = "ERIAL"   -> is_erial_office_depot(t)
      [] k = "GAMBOA"  -> is_gustavo_gamboa(t)

\* the chain with its arms in the opposite order;
\* C7 fails of it
DispatchLastMatch(t) ==
    IF is_gustavo_gamboa(t) THEN "GAMBOA"
    ELSE IF is_erial_office_depot(t) THEN "ERIAL"
    ELSE IF is_brujo_caribeno(t) THEN "BRUJO"
    ELSE IF is_ciclo_huracan(t) THEN "CICLO"
    ELSE IF is_tribu_cr_hacienda(t) THEN "TRIBU"
    ELSE IF is_navatec_cr(t) THEN "NAVATEC"
    ELSE IF is_forlan_co(t) THEN "FORLAN"
    ELSE "GENERIC"

\* the if/elif chain of process_files: the arm that is taken
Dispatch(t) ==
    IF is_forlan_co(t) THEN "FORLAN"
    ELSE IF is_navatec_cr(t) THEN "NAVATEC"
    ELSE IF is_tribu_cr_hacienda(t) THEN "TRIBU"
    ELSE IF is_ciclo_huracan(t) THEN "CICLO"
    ELSE IF is_brujo_caribeno(t) THEN "BRUJO"
    ELSE IF is_erial_office_depot(t) THEN "ERIAL"
    ELSE IF is_gustavo_gamboa(t) THEN "GAMBOA"
    ELSE "GENERIC"

-----------------------------------------------------------------------------
(* Output columns and the FinanceInvoice record *)

FIN_COLS ==
    << "Documento", "Pais", "Tipo_Documento", "Proveedor_Razon_Social",
       "Proveedor_Id_Tributaria", "Cliente_Razon_Social",
       "Cliente_Id_Tributaria", "Prefijo", "Factura_Numero", "Consecutivo",
       "Fecha_Emision", "Condicion_Venta", "Forma_Pago", "Medio_Pago",
       "Moneda", "Simbolo_Moneda", "Subtotal", "Impuesto_IVA",
       "Total_Factura", "OC", "CUFE", "Resolucion_DIAN", "QR_o_Codigo",
       "Clave_Numerica", "Codigo_Unico_Consulta", "Anticipo", "Saldo",
       "Costo_Factura_Marcado", "Probable_Escaneado", "Metodo_Extraccion",
       "Error" >>

LINE_COLS ==
    << "Factura_Numero", "Documento", "Linea", "Codigo_Item", "Descripcion",
       "Cantidad", "Unidad", "Precio_Unitario", "Descuento", "Subtotal_Linea",
       "Impuesto_Linea", "Total_Linea", "Moneda", "Pais", "Marca_Costo",
       "Cuenta_Costo", "Descripcion_Raw" >>

Range(q) == {q[i] : i \in 1..Len(q)}

\* the columns whose cells hold a float or None
FinNumCols == {"Subtotal", "Impuesto_IVA", "Total_Factura", "Anticipo", "Saldo"}
LineNumCols == {"Cantidad", "Precio_Unitario", "Descuento", "Subtotal_Linea",
                "Impuesto_Linea", "Total_Linea"}

\* A capture of a pattern that the text record does not carry: the cell holds
\* what the pattern captured, which the model does not look into.
CapturedStr == "(captured)"
CapturedNum == <<"captured">>

\* the dataclass FinanceInvoice with its defaults
FinanceInvoice(Documento) ==
    [c \in Range(FIN_COLS) |->
        IF c = "Documento" THEN Documento
        ELSE IF c = "Tipo_Documento" THEN "Factura"
        ELSE IF c \in FinNumCols THEN None
        ELSE ""]

\* x or d, on str
Or(x, d) == IF x # "" THEN x ELSE d

SiNo(b) == IF b THEN "SI" ELSE "NO"

-----------------------------------------------------------------------------
(* Header parsers.  The captures that the text record does not carry      *)
(* (supplier, client, dates, payment terms, keys) are left at the value    *)
(* find_first gives when no pattern matches.                               *)

parse_forlan_co_header(t, filename) ==
    LET scanned == looks_scanned(t)
        mon     == detect_currency(t)
    IN [FinanceInvoice(filename) EXCEPT
          !.Pais = "CO",
          !.Factura_Numero = t.factura,
          !.Moneda = Or(mon[1], "COP"),
          !.Simbolo_Moneda = Or(mon[2], "$"),
          !.Total_Factura = parse_number_latam(t.total),
          !.Probable_Escaneado = SiNo(scanned),
          !.Metodo_Extraccion = "FORLAN CO (header + líneas)",
          !.Error = ""]

parse_navatec_cr_header(t, filename) ==
    LET scanned == looks_scanned(t)
        mon     == detect_currency(t)
    IN [FinanceInvoice(filename) EXCEPT
          !.Pais = "CR",
          !.Factura_Numero = t.factura,
          !.Moneda = Or(mon[1], "CRC"),
          !.Simbolo_Moneda = Or(mon[2], "¢"),
          !.Total_Factura = parse_number_latam(t.total),
          !.Probable_Escaneado = SiNo(scanned),
          !.Metodo_Extraccion = "NAVATEC CR (header + líneas)",
          !.Error = ""]

parse_tribu_hacienda_cr_header(t, filename) ==
    LET scanned == looks_scanned(t)
        mon     == detect_currency(t)
    IN [FinanceInvoice(filename) EXCEPT
          !.Pais = "CR",
          !.Factura_Numero = t.factura,
          !.Consecutivo = t.factura,
          !.Moneda = Or(mon[1], "CRC"),
          !.Simbolo_Moneda = Or(mon[2], "¢"),
          !.Total_Factura = parse_number_latam(t.total),
          !.Probable_Escaneado = SiNo(scanned),
          !.Metodo_Extraccion = "TRIBU-CR / Hacienda (header + líneas)",
          !.Error = ""]

parse_generic_header(t, filename, pais_hint) ==
    LET scanned == looks_scanned(t)
        mon     == detect_currency(t)
    IN [FinanceInvoice(filename) EXCEPT
          !.Pais = pais_hint,
          !.Factura_Numero = t.factura,
          !.Moneda = mon[1],
          !.Simbolo_Moneda = mon[2],
          !.Probable_Escaneado = SiNo(scanned),
          !.Metodo_Extraccion = "Genérico (header)",
          !.Error = ""]

\* an arm that forgets to set its label; C6 fails of it
GenericCRNoLabel(t, filename, c, s, label) ==
    LET h == [parse_generic_header(t, filename, "CR") EXCEPT !.Pais = "CR"]
    IN IF h.Moneda = ""
       THEN [h EXCEPT !.Moneda = Or(c, "CRC"), !.Simbolo_Moneda = Or(s, "¢")]
       ELSE h

\* an arm that takes the detected currency as it is, with no default;
\* C21 fails of it
GenericCRNoDefault(t, filename, c, s, label) ==
    LET h  == [parse_generic_header(t, filename, "CR") EXCEPT !.Pais = "CR"]
        h2 == IF h.Moneda = ""
              THEN [h EXCEPT !.Moneda = c, !.Simbolo_Moneda = s]
              ELSE h
    IN [h2 EXCEPT !.Metodo_Extraccion = label]

\* the four arms of process_files that share the generic header parser
GenericCR(t, filename, c, s, label) ==
    LET h  == [parse_generic_header(t, filename, "CR") EXCEPT !.Pais = "CR"]
        h2 == IF h.Moneda = ""
              THEN [h EXCEPT !.Moneda = Or(c, "CRC"), !.Simbolo_Moneda = Or(s, "¢")]
              ELSE h
    IN [h2 EXCEPT !.Metodo_Extraccion = label]

\* the else arm of process_files
GenericArm(t, filename, c, s) ==
    LET h  == parse_generic_header(t, filename, "")
        h2 == IF h.Moneda = ""
              THEN [h EXCEPT !.Moneda = c, !.Simbolo_Moneda = s]
              ELSE h
    IN [h2 EXCEPT !.Metodo_Extraccion = Or(h2.Metodo_Extraccion, "Genérico (header)")]

\* inv as the taken arm of the chain leaves it
HeaderOf(b, t, filename, c, s) ==
    CASE b = "FORLAN"  -> parse_forlan_co_header(t, filename)
      [] b = "NAVATEC" -> parse_navatec_cr_header(t, filename)
      [] b = "TRIBU"   -> parse_tribu_hacienda_cr_header(t, filename)
      [] b = "CICLO"   -> GenericCR(t, filename, c, s, "CICLO HURACAN (header + líneas)")
      [] b = "BRUJO"   -> GenericCR(t, filename, c, s, "EL BRUJO CARIBEÑO (header + líneas)")
      [] b = "ERIAL"   -> GenericCR(t, filename, c, s, "ERIAL BQ (header + líneas)")
      [] b = "GAMBOA"  -> GenericCR(t, filename, c, s, "GUSTAVO GAMBOA (header + líneas)")
      [] OTHER         -> GenericArm(t, filename, c, s)

\* the header parser the taken arm calls
HeaderFn(b) ==
    CASE b = "FORLAN"  -> "parse_forlan_co_header"
      [] b = "NAVATEC" -> "parse_navatec_cr_header"
      [] b = "TRIBU"   -> "parse_tribu_hacienda_cr_header"
      [] OTHER         -> "parse_generic_header"

-----------------------------------------------------------------------------
(* Line-item parsers *)

RECURSIVE Pow10(_)
Pow10(n) == IF n = 0 THEN 1 ELSE 10 * Pow10(n - 1)

\* x + y and x - y on floats (exact decimals here)
AddFloat(x, y) ==
    LET sc == Max(x[3], y[3])
    IN Normalize(x[2] * Pow10(sc - x[3]) + y[2] * Pow10(sc - y[3]), sc)

SubFloat(x, y) ==
    LET sc == Max(x[3], y[3])
    IN Normalize(x[2] * Pow10(sc - x[3]) - y[2] * Pow10(sc - y[3]), sc)

\* a total made of the one amount that parsed;
\* C19 fails of it
SumOfParsed(a, b) ==
    IF a # None /\ b # None THEN AddFloat(a, b) ELSE IF a # None THEN a ELSE b

\* (a + b) if (a is not None and b is not None) else None
SumOrNone(a, b) == IF a # None /\ b # None THEN AddFloat(a, b) ELSE None
DiffOrNone(a, b) == IF a # None /\ b # None THEN SubFloat(a, b) ELSE None

\* the lines of the text that match the item grammar of template k
MatchingLines(t, k) == SelectSeq(t.lines, LAMBDA ln : k \in ln.grammars)

\* an item that does not take the currency of its header;
\* C22 fails of it
ItemNoCurrency(h, linea, unidad, descuento, subtotal, impuesto, total, raw) ==
    [c \in Range(LINE_COLS) |->
        CASE c = "Factura_Numero"  -> h.Factura_Numero
          [] c = "Documento"       -> h.Documento
          [] c = "Linea"           -> linea
          [] c = "Codigo_Item"     -> CapturedStr
          [] c = "Descripcion"     -> CapturedStr
          [] c = "Cantidad"        -> CapturedNum
          [] c = "Unidad"          -> unidad
          [] c = "Precio_Unitario" -> CapturedNum
          [] c = "Descuento"       -> descuento
          [] c = "Subtotal_Linea"  -> subtotal
          [] c = "Impuesto_Linea"  -> impuesto
          [] c = "Total_Linea"     -> total
          [] c = "Moneda"          -> ""
          [] c = "Pais"            -> h.Pais
          [] c = "Marca_Costo"     -> ""
          [] c = "Cuenta_Costo"    -> ""
          [] c = "Descripcion_Raw" -> raw]

\* the dict an item parser appends
Item(h, linea, unidad, descuento, subtotal, impuesto, total, raw) ==
    [c \in Range(LINE_COLS) |->
        CASE c = "Factura_Numero"  -> h.Factura_Numero
          [] c = "Documento"       -> h.Documento
          [] c = "Linea"           -> linea
          [] c = "Codigo_Item"     -> CapturedStr
          [] c = "Descripcion"     -> CapturedStr
          [] c = "Cantidad"        -> CapturedNum
          [] c = "Unidad"          -> unidad
          [] c = "Precio_Unitario" -> CapturedNum
          [] c = "Descuento"       -> descuento
          [] c = "Subtotal_Linea"  -> subtotal
          [] c = "Impuesto_Linea"  -> impuesto
          [] c = "Total_Linea"     -> total
          [] c = "Moneda"          -> h.Moneda
          [] c = "Pais"            -> h.Pais
          [] c = "Marca_Costo"     -> ""
          [] c = "Cuenta_Costo"    -> ""
          [] c = "Descripcion_Raw" -> raw]

items_forlan_co(t, h) ==
    LET m == MatchingLines(t, "FORLAN")
    IN [i \in 1..Len(m) |->
          Item(h, m[i].linea, "", None, parse_number_latam(m[i].subt), None,
               parse_number_latam(m[i].total), m[i].raw)]

items_navatec_cr(t, h) ==
    LET m == MatchingLines(t, "NAVATEC")
    IN [i \in 1..Len(m) |->
          LET subtotal_linea == parse_number_latam(m[i].subt)
              imp            == parse_number_latam(m[i].imp)
          IN Item(h, m[i].linea, CapturedStr, CapturedNum, subtotal_linea, imp,
                  SumOrNone(subtotal_linea, imp), m[i].raw)]

\* one record per item-header line; the amounts come from the blob that
\* follows the line
items_tribu_hacienda_cr(t, h) ==
    LET m == MatchingLines(t, "TRIBU")
    IN [i \in 1..Len(m) |->
          Item(h, m[i].linea, "Unidad", CapturedNum, parse_number_latam(m[i].subt),
               None, parse_number_latam(m[i].total), m[i].raw)]

items_ciclo_huracan(t, h) ==
    LET m == MatchingLines(t, "CICLO")
    IN [i \in 1..Len(m) |->
          Item(h, m[i].linea, "Unid", Float(0, 0), None,
               parse_number_latam(m[i].imp), parse_number_latam(m[i].total),
               m[i].raw)]

\* Linea is the running count of matching lines
items_brujo_caribeno(t, h) ==
    LET m == MatchingLines(t, "BRUJO")
    IN [i \in 1..Len(m) |->
          LET subtotal == parse_number_latam(m[i].subt)
              imp      == parse_number_latam(m[i].imp)
          IN Item(h, IntToStr(i), CapturedStr, CapturedNum, subtotal, imp,
                  SumOrNone(subtotal, imp), m[i].raw)]

items_erial_office_depot(t, h) ==
    LET m == MatchingLines(t, "ERIAL")
    IN [i \in 1..Len(m) |->
          Item(h, m[i].linea, CapturedStr, CapturedNum,
               parse_number_latam(m[i].subt), parse_number_latam(m[i].imp),
               parse_number_latam(m[i].total), m[i].raw)]

items_gustavo_gamboa(t, h) ==
    LET m == MatchingLines(t, "GAMBOA")
    IN [i \in 1..Len(m) |->
          LET total == parse_number_latam(m[i].total)
              imp   == parse_number_latam(m[i].imp)
          IN Item(h, m[i].linea, CapturedStr, CapturedNum,
                  DiffOrNone(total, imp), imp, total, m[i].raw)]

\* items as the taken arm of the chain leaves it
ItemsOf(b, t, h) ==
    CASE b = "FORLAN"  -> items_forlan_co(t, h)
      [] b = "NAVATEC" -> items_navatec_cr(t, h)
      [] b = "TRIBU"   -> items_tribu_hacienda_cr(t, h)
      [] b = "CICLO"   -> items_ciclo_huracan(t, h)
      [] b = "BRUJO"   -> items_brujo_caribeno(t, h)
      [] b = "ERIAL"   -> items_erial_office_depot(t, h)
      [] b = "GAMBOA"  -> items_gustavo_gamboa(t, h)
      [] OTHER         -> <<>>

\* the line parser the taken arm calls, if any
ItemsFn(b) ==
    CASE b = "FORLAN"  -> <<"items_forlan_co">>
      [] b = "NAVATEC" -> <<"items_navatec_cr">>
      [] b = "TRIBU"   -> <<"items_tribu_hacienda_cr">>
      [] b = "CICLO"   -> <<"items_ciclo_huracan">>
      [] b = "BRUJO"   -> <<"items_brujo_caribeno">>
      [] b = "ERIAL"   -> <<"items_erial_office_depot">>
      [] b = "GAMBOA"  -> <<"items_gustavo_gamboa">>
      [] OTHER         -> <<>>

\* a marker row that does not carry the header's keys;
\* C5 fails of it
NoLinesRowBlank(h) ==
    [c \in Range(LINE_COLS) |->
        CASE c = "Descripcion_Raw" -> "SIN_LINEAS_DETECTADAS"
          [] c \in LineNumCols     -> None
          [] OTHER                 -> ""]

\* the marker row of a document without items
NoLinesRow(h) ==
    [c \in Range(LINE_COLS) |->
        CASE c = "Factura_Numero"  -> h.Factura_Numero
          [] c = "Documento"       -> h.Documento
          [] c = "Moneda"          -> h.Moneda
          [] c = "Pais"            -> h.Pais
          [] c = "Descripcion_Raw" -> "SIN_LINEAS_DETECTADAS"
          [] c \in LineNumCols     -> None
          [] OTHER                 -> ""]

\* an error row without the document name;
\* C1 fails of it
ErrorFinRowNoName(filename, e) ==
    [[c \in Range(FIN_COLS) |-> IF c \in FinNumCols THEN Blank ELSE ""] EXCEPT
        !.Metodo_Extraccion = "ERROR",
        !.Error = e]

\* the rows of the except branch
ErrorFinRow(filename, e) ==
    [[c \in Range(FIN_COLS) |-> IF c \in FinNumCols THEN Blank ELSE ""] EXCEPT
        !.Documento = filename,
        !.Metodo_Extraccion = "ERROR",
        !.Error = e]

\* an error line without the message; C4 fails of it
ErrorLineRowBare(filename, e) ==
    [c \in Range(LINE_COLS) |->
        CASE c = "Documento"       -> filename
          [] c = "Descripcion_Raw" -> "ERROR"
          [] c \in LineNumCols     -> None
          [] OTHER                 -> ""]

ErrorLineRow(filename, e) ==
    [c \in Range(LINE_COLS) |->
        CASE c = "Documento"       -> filename
          [] c = "Descripcion_Raw" -> "ERROR: " \o e
          [] c \in LineNumCols     -> None
          [] OTHER                 -> ""]

-----------------------------------------------------------------------------
(* The stable sort of the line table *)

\* the sort key of a row: by=["Factura_Numero", "Documento", "Linea"].
\* Factura_Numero is a str in every row process_files appends, so the
\* fillna("") before the sort finds nothing to fill.
KeyLess(r1, r2) ==
    \/ StrLess(r1.Factura_Numero, r2.Factura_Numero)
    \/ /\ r1.Factura_Numero = r2.Factura_Numero
       /\ \/ StrLess(r1.Documento, r2.Documento)
          \/ /\ r1.Documento = r2.Documento
             /\ StrLess(r1.Linea, r2.Linea)

\* an insertion that is not stable, index k going in front of the rows with
\* its key; C9 fails of it
InsertIndexUnstable(rows, ix, k) ==
    LET later == {j \in 1..Len(ix) : ~KeyLess(rows[ix[j]], rows[k])}
        at    == IF later = {} THEN Len(ix) + 1
                 ELSE CHOOSE j \in later : \A i \in later : j <= i
    IN SubSeq(ix, 1, at - 1) \o <<k>> \o SubSeq(ix, at, Len(ix))

\* index k put into the sorted indexer ix: behind every index whose row
\* does not sort after row k
InsertIndex(rows, ix, k) ==
    LET later == {j \in 1..Len(ix) : KeyLess(rows[k], rows[ix[j]])}
        at    == IF later = {} THEN Len(ix) + 1
                 ELSE CHOOSE j \in later : \A i \in later : j <= i
    IN SubSeq(ix, 1, at - 1) \o <<k>> \o SubSeq(ix, at, Len(ix))

\* the indexer of sort_values(kind="stable") over the first n rows
RECURSIVE SortIndexer(_, _)
SortIndexer(rows, n) ==
    IF n = 0 THEN <<>> ELSE InsertIndex(rows, SortIndexer(rows, n - 1), n)

\* q taken in the order of the indexer
Take(q, ix) == [i \in 1..Len(ix) |-> q[ix[i]]]

-----------------------------------------------------------------------------
(* The multi-line item parsers, line by line.                              *)
(*                                                                         *)
(* A line is a sequence of cells: a digit, a run of ten digits, a blank,   *)
(* a letter, or one of the words the parsers look for.                     *)

TenDigits == "0123456789"

\* how many digits a cell holds
DigitLen(c) ==
    CASE c \in Digits -> 1
      [] c = TenDigits -> 10
      [] OTHER -> 0

\* str.upper() on a cell
UpperCell(c) ==
    CASE c = "Observaciones" -> "OBSERVACIONES"
      [] c = "Comentario"    -> "COMENTARIO"
      [] c = "x"             -> "X"
      [] OTHER               -> c

\* lines(text): every line stripped, the blank ones dropped
lines(t) == SelectSeq([n \in 1..Len(t) |-> Strip(t[n])], LAMBDA ln : ln # <<>>)

\* the length of the longest prefix \d* and \s* match
RECURSIVE LeadDigits(_)
LeadDigits(s) ==
    IF s # <<>> /\ DigitLen(Head(s)) > 0 THEN 1 + LeadDigits(Tail(s)) ELSE 0

RECURSIVE LeadBlanks(_)
LeadBlanks(s) == IF s # <<>> /\ Head(s) = " " THEN 1 + LeadBlanks(Tail(s)) ELSE 0

Drop(s, n) == SubSeq(s, n + 1, Len(s))

RECURSIVE DigitCount(_)
DigitCount(s) == IF s = <<>> THEN 0 ELSE DigitLen(Head(s)) + DigitCount(Tail(s))

\* the shortest code each parser accepts: \d{10,} and \d+
MinCode(fn) == IF fn = "TRIBU" THEN 10 ELSE 1

\* ^(?P<linea>\d+)\s+(?P<codigo>\d{m,}) on a line: whether it matches, the
\* two groups and what follows them.  Each digit run has to be followed by
\* white space, so each group is the whole run.
MatchItemCode(ln, m) ==
    LET d1 == LeadDigits(ln)
        r1 == Drop(ln, d1)
        r2 == Drop(r1, LeadBlanks(r1))
        d2 == LeadDigits(r2)
    IN [ok     |-> d1 >= 1 /\ LeadBlanks(r1) >= 1
                     /\ DigitCount(SubSeq(r2, 1, d2)) >= m,
        linea  |-> SubSeq(ln, 1, d1),
        codigo |-> SubSeq(r2, 1, d2),
        rest   |-> Drop(r2, d2)]

\* the next-item test with the code of any length in both parsers;
\* C20 fails of it
next_item_any_code(fn, ln) ==
    LET m == MatchItemCode(ln, 1)
    IN m.ok /\ LeadBlanks(m.rest) >= 1

\* the next-item test of the inner loop: ^\d+\s+\d{m,}\s+
next_item(fn, ln) ==
    LET m == MatchItemCode(ln, MinCode(fn))
    IN m.ok /\ LeadBlanks(m.rest) >= 1

\* the item-header test of the outer loop: ^\d+\s+\d{m,}\s+(?P<desc>.+)$
item_header(fn, ln) ==
    LET m == MatchItemCode(ln, MinCode(fn))
    IN m.ok /\ LeadBlanks(m.rest) >= 1 /\ Len(m.rest) >= 2

\* ln.upper().startswith("OBSERVACIONES") / ("COMENTARIO")
Terminator(fn) == IF fn = "TRIBU" THEN "OBSERVACIONES" ELSE "COMENTARIO"

is_terminator(fn, ln) == ln # <<>> /\ UpperCell(Head(ln)) = Terminator(fn)

\* the number of characters of a string of cells
RECURSIVE StrLen(_)
StrLen(s) ==
    IF s = <<>> THEN 0
    ELSE (CASE Head(s) = TenDigits -> 10
            [] Head(s) \in {"OBSERVACIONES", "Observaciones"} -> 13
            [] Head(s) \in {"COMENTARIO", "Comentario"} -> 10
            [] OTHER -> 1) + StrLen(Tail(s))

\* s[:n], to the cell
RECURSIVE Slice(_, _)
Slice(s, n) ==
    IF s = <<>> \/ StrLen(<<Head(s)>>) > n THEN <<>>
    ELSE <<Head(s)>> \o Slice(Tail(s), n - StrLen(<<Head(s)>>))

RawLimit == 1000

\* the fields of the appended dict that come from the scan
ScanRecord(ln, b) ==
    LET m == MatchItemCode(ln, 1)
    IN [Linea           |-> m.linea,
        Codigo_Item     |-> m.codigo,
        Descripcion_Raw |-> Slice(ln \o <<" ", "|", " ">> \o Strip(b), RawLimit)]

-----------------------------------------------------------------------------
(* Uploaded files *)

\* What read() and extract_text_pypdf make of an upload: a file whose read()
\* raises, bytes that PdfReader rejects, or a PDF with its extracted text.
NoText == [phrases |-> {}, factura |-> "", total |-> <<>>, lines |-> <<>>, len |-> 0]
Unreadable == [kind |-> "unreadable", msg |-> "I/O operation on closed file", text |-> NoText]
Corrupt == [kind |-> "corrupt", msg |-> "EOF marker not found", text |-> NoText]
Pdf(t) == [kind |-> "pdf", msg |-> "", text |-> t]

Names == {"a.pdf", "b.pdf"}

\* a line that matches the item grammars g
Line(g, linea, subt, imp, total, raw) ==
    [grammars |-> g, linea |-> linea, subt |-> subt, imp |-> imp,
     total |-> total, raw |-> raw]

\* a NAVATEC invoice with three item lines, the line numbers not in order
\* and one of them twice
TextNavatec ==
    [phrases |-> {"Factura Electrónica N°", "www.facturaelectronica.cr", "¢"},
     factura |-> "45",
     total   |-> <<"1", ",", "1", "3", "0", ".", "5", "0">>,
     lines   |-> << Line({"NAVATEC"}, "002", <<"2", "0">>, <<"2", ".", "6">>, <<>>,
                         "002 1.00 Unid A2 Y 20 0.00 20 2.6"),
                    Line({"NAVATEC"}, "001", <<"1", ",", "0", "0", "0", ".", "5">>,
                         <<"1", "3", "0">>, <<>>,
                         "001 1.00 Unid A1 X 1,000.5 0.00 1,000.5 130"),
                    Line({"NAVATEC"}, "002", <<"5">>, <<".">>, <<>>,
                         "002 2.00 Unid A3 Z 5 0.00 5 .") >>,
     len     |-> 2500]

\* a FORLAN invoice none of whose lines matches the item grammar
TextForlan ==
    [phrases |-> {"FERRETERIA FORLAN", "FACTURA ELECTR", "TOTAL A PAGAR", "Pesos"},
     factura |-> "9",
     total   |-> <<"1", ".", "1", "9", "0", ",", "0", "0">>,
     lines   |-> <<>>,
     len     |-> 600]

\* the empty text of an image-only PDF
TextEmpty == NoText

BatchTexts == {TextNavatec, TextForlan, TextEmpty}

Uploads(texts) ==
    {[name |-> n, content |-> c] :
        n \in Names, c \in {Unreadable, Corrupt} \cup {Pdf(t) : t \in texts}}

Batches(texts, lens) == UNION {[1..n -> Uploads(texts)] : n \in lens}

\* values of the audit length slider
AuditCharsChoices == {2000}

-----------------------------------------------------------------------------
(* process_files *)

\* a local that is not bound yet
Unbound == [unbound |-> TRUE]

\* s[:n]: the number of characters kept of a string of length len
SliceLen(len, n) == IF n >= 0 THEN Min(n, len) ELSE Max(len + n, 0)

\* an audit row with the length of the text it keeps; C14 fails of it
AuditRowKeptLength(filename, t, n) ==
    [Documento |-> filename, Longitud_Texto |-> SliceLen(t.len, n),
     Texto |-> [of |-> "text", chars |-> SliceLen(t.len, n)]]

AuditRow(filename, t, n) ==
    [Documento |-> filename, Longitud_Texto |-> t.len,
     Texto |-> [of |-> "text", chars |-> SliceLen(t.len, n)]]

ErrorAuditRow(filename, e) ==
    [Documento |-> filename, Longitud_Texto |-> 0,
     Texto |-> [of |-> "ERROR: " \o e, chars |-> Len("ERROR: " \o e)]]

\* n copies of k
Rep(k, n) == [i \in 1..n |-> k]

\* no decimal behind num_in
NoSrc == [int |-> <<>>, frac |-> <<>>, style |-> ""]

IdleNum == num_pc = "idle" /\ num_in = <<>> /\ num_out = None /\ num_src = NoSrc
IdleNorm == nt_pc = "idle" /\ nt_in = <<>> /\ nt_once = <<>> /\ nt_twice = <<>>
IdleItems ==
    /\ ml_pc = "idle" /\ ml_fn = "" /\ ml_text = <<>> /\ ln_list = <<>>
    /\ ml_i = 0 /\ ml_j = 0 /\ blob = <<>> /\ out = <<>>
IdleCls == cls_pc = "idle" /\ cls_text = NoText /\ cls_out = [k \in Template |-> FALSE]

\* the call process_files(files, include_audit, audit_chars)
InitCall(batches, limits) ==
    /\ files \in batches
    /\ include_audit \in BOOLEAN
    /\ audit_chars \in limits
    /\ idx = 0
    /\ pc = "Begin"
    /\ pdf_bytes = Unbound
    /\ text = Unbound
    /\ cur = "" /\ sym = ""
    /\ branch = ""
    /\ inv = Unbound
    /\ items = <<>>
    /\ err = ""
    /\ fin_rows = <<>> /\ line_rows = <<>> /\ audit_rows = <<>>
    /\ calls = <<>>
    /\ raised = {}
    /\ fin_src = <<>> /\ line_src = <<>> /\ audit_src = <<>> /\ df_lines_src = <<>>
    /\ df_lines_ix = <<>>
    /\ n_items = <<>>
    /\ df_fin = <<>> /\ df_lines = <<>> /\ df_audit = <<>>

InitBatch(batches) == InitCall(batches, AuditCharsChoices)

Init == InitBatch(Batches(BatchTexts, 0..MaxFiles)) /\ IdleNum /\ IdleCls /\ IdleNorm /\ IdleItems

\* for uf in files: pdf_bytes = uf.read()  -- outside the try
ReadBytes ==
    /\ pc \in {"Begin", "Done", "Failed"}
    /\ idx < Len(files)
    /\ idx' = idx + 1
    /\ calls' = <<>>
    /\ IF files[idx + 1].content.kind = "unreadable"
       THEN /\ pc' = "Raised"
            /\ err' = files[idx + 1].content.msg
            /\ UNCHANGED pdf_bytes
       ELSE /\ pc' = "Start"
            /\ pdf_bytes' = files[idx + 1].content
            /\ UNCHANGED err
    /\ UNCHANGED <<files, include_audit, audit_chars, text, cur, sym, branch,
                   inv, items, fin_rows, line_rows, audit_rows, raised,
                   fin_src, line_src, audit_src, df_lines_src, df_lines_ix, df_fin,
                   df_lines, df_audit, n_items>>
    /\ UNCHANGED <<varsNum, varsCls, varsNorm, varsItems>>

\* text = extract_text_pypdf(pdf_bytes)
ExtractText ==
    /\ pc = "Start"
    /\ IF pdf_bytes.kind = "corrupt"
       THEN /\ pc' = "Except"
            /\ err' = pdf_bytes.msg
            /\ raised' = raised \cup {idx}
            /\ UNCHANGED text
       ELSE /\ pc' = "TextExtracted"
            /\ text' = pdf_bytes.text
            /\ UNCHANGED <<err, raised>>
    /\ UNCHANGED <<files, include_audit, audit_chars, idx, pdf_bytes, cur, sym,
                   branch, inv, items, fin_rows, line_rows, audit_rows, calls,
                   fin_src, line_src, audit_src, df_lines_src, df_lines_ix, df_fin,
                   df_lines, df_audit, n_items>>
    /\ UNCHANGED <<varsNum, varsCls, varsNorm, varsItems>>

\* cur, sym = detect_currency(text); the conditions of the if/elif chain
Classify ==
    /\ pc = "TextExtracted"
    /\ cur' = detect_currency(text)[1]
    /\ sym' = detect_currency(text)[2]
    /\ branch' = Dispatch(text)
    /\ pc' = "Classified"
    /\ UNCHANGED <<files, include_audit, audit_chars, idx, pdf_bytes, text, inv,
                   items, err, fin_rows, line_rows, audit_rows, calls, raised,
                   fin_src, line_src, audit_src, df_lines_src, df_lines_ix, df_fin,
                   df_lines, df_audit, n_items>>
    /\ UNCHANGED <<varsNum, varsCls, varsNorm, varsItems>>

\* inv = ... of the taken arm, with its currency backfill and label
ExtractHeader ==
    /\ pc = "Classified"
    /\ inv' = HeaderOf(branch, text, files[idx].name, cur, sym)
    /\ calls' = Append(calls, HeaderFn(branch))
    /\ pc' = "HeaderExtracted"
    /\ UNCHANGED <<files, include_audit, audit_chars, idx, pdf_bytes, text, cur,
                   sym, branch, items, err, fin_rows, line_rows, audit_rows,
                   raised, fin_src, line_src, audit_src, df_lines_src, df_lines_ix, df_fin,
                   df_lines, df_audit, n_items>>
    /\ UNCHANGED <<varsNum, varsCls, varsNorm, varsItems>>

\* items = ... of the taken arm
ExtractLines ==
    /\ pc = "HeaderExtracted"
    /\ items' = ItemsOf(branch, text, inv)
    /\ calls' = calls \o ItemsFn(branch)
    /\ n_items' = Append(n_items, <<idx, Len(ItemsOf(branch, text, inv))>>)
    /\ pc' = "LinesExtracted"
    /\ UNCHANGED <<files, include_audit, audit_chars, idx, pdf_bytes, text, cur,
                   sym, branch, inv, err, fin_rows, line_rows, audit_rows,
                   raised, fin_src, line_src, audit_src, df_lines_src, df_lines_ix, df_fin,
                   df_lines, df_audit>>
    /\ UNCHANGED <<varsNum, varsCls, varsNorm, varsItems>>

\* the appends that end the try body
AppendRows ==
    /\ pc = "LinesExtracted"
    /\ LET new == IF items # <<>> THEN items ELSE <<NoLinesRow(inv)>>
       IN /\ fin_rows' = Append(fin_rows, [c \in Range(FIN_COLS) |-> inv[c]])
          /\ fin_src' = Append(fin_src, idx)
          /\ line_rows' = line_rows \o new
          /\ line_src' = line_src \o Rep(idx, Len(new))
    /\ IF include_audit
       THEN /\ audit_rows' = Append(audit_rows, AuditRow(files[idx].name, text, audit_chars))
            /\ audit_src' = Append(audit_src, idx)
       ELSE UNCHANGED <<audit_rows, audit_src>>
    /\ pc' = "Done"
    /\ UNCHANGED <<files, include_audit, audit_chars, idx, pdf_bytes, text, cur,
                   sym, branch, inv, items, err, calls, raised, df_lines_src,
                   df_lines_ix, n_items, df_fin, df_lines, df_audit>>
    /\ UNCHANGED <<varsNum, varsCls, varsNorm, varsItems>>

\* an except branch that starts the tables afresh;
\* C2 fails of it
HandleExceptionReset ==
    /\ pc = "Except"
    /\ fin_rows' = <<ErrorFinRow(files[idx].name, err)>>
    /\ fin_src' = <<idx>>
    /\ line_rows' = <<ErrorLineRow(files[idx].name, err)>>
    /\ line_src' = <<idx>>
    /\ IF include_audit
       THEN /\ audit_rows' = <<ErrorAuditRow(files[idx].name, err)>>
            /\ audit_src' = <<idx>>
       ELSE UNCHANGED <<audit_rows, audit_src>>
    /\ pc' = "Failed"
    /\ UNCHANGED <<files, include_audit, audit_chars, idx, pdf_bytes, text, cur,
                   sym, branch, inv, items, err, calls, raised, df_lines_src,
                   df_lines_ix, n_items, df_fin, df_lines, df_audit>>
    /\ UNCHANGED <<varsNum, varsCls, varsNorm, varsItems>>

\* except Exception as e
HandleException ==
    /\ pc = "Except"
    /\ fin_rows' = Append(fin_rows, ErrorFinRow(files[idx].name, err))
    /\ fin_src' = Append(fin_src, idx)
    /\ line_rows' = Append(line_rows, ErrorLineRow(files[idx].name, err))
    /\ line_src' = Append(line_src, idx)
    /\ IF include_audit
       THEN /\ audit_rows' = Append(audit_rows, ErrorAuditRow(files[idx].name, err))
            /\ audit_src' = Append(audit_src, idx)
       ELSE UNCHANGED <<audit_rows, audit_src>>
    /\ pc' = "Failed"
    /\ UNCHANGED <<files, include_audit, audit_chars, idx, pdf_bytes, text, cur,
                   sym, branch, inv, items, err, calls, raised, df_lines_src,
                   df_lines_ix, n_items, df_fin, df_lines, df_audit>>
    /\ UNCHANGED <<varsNum, varsCls, varsNorm, varsItems>>

\* the data frames, the sort, the return
Return ==
    /\ pc \in {"Begin", "Done", "Failed"}
    /\ idx = Len(files)
    /\ df_fin' = fin_rows
    /\ LET ix == SortIndexer(line_rows, Len(line_rows))
       IN /\ df_lines' = Take(line_rows, ix)
          /\ df_lines_src' = Take(line_src, ix)
          /\ df_lines_ix' = ix
    /\ df_audit' = IF include_audit THEN audit_rows ELSE <<>>
    /\ pc' = "Returned"
    /\ UNCHANGED <<files, include_audit, audit_chars, idx, pdf_bytes, text, cur,
                   sym, branch, inv, items, err, fin_rows, line_rows,
                   audit_rows, calls, raised, fin_src, line_src, audit_src,
                   n_items>>
    /\ UNCHANGED <<varsNum, varsCls, varsNorm, varsItems>>

Next ==
    \/ ReadBytes
    \/ ExtractText
    \/ Classify
    \/ ExtractHeader
    \/ ExtractLines
    \/ AppendRows
    \/ HandleException
    \/ Return

Spec == Init /\ [][Next]_vars

\* the interpreter runs the call on: a step that can be taken is taken
SpecLive == Init /\ [][Next]_vars /\ WF_vars(Next)

-----------------------------------------------------------------------------
(* process_files on one file, over texts with every combination of         *)
(* detector results                                                        *)

\* the order of the if/elif chain
Priority == <<"FORLAN", "NAVATEC", "TRIBU", "CICLO", "BRUJO", "ERIAL", "GAMBOA">>

\* per template: no phrase of it, all but one of its phrases, all of them
DispatchOptions(k) ==
    CASE k = "FORLAN"  -> { {}, {"FERRETERIA FORLAN", "TOTAL A PAGAR"},
                            {"FERRETERIA FORLAN", "FACTURA ELECTR", "TOTAL A PAGAR"} }
      [] k = "NAVATEC" -> { {}, {"FACTURA ELECTRONICA N°"},
                            {"FACTURA ELECTRONICA N°", "FACTURAELECTRONICA.CR"},
                            {"Factura Electrónica N°", "www.facturaelectronica.cr"} }
      [] k = "TRIBU"   -> { {}, {"WWW.HACIENDA.GO.CR", "TRIBU-CR"},
                            {"WWW.HACIENDA.GO.CR", "TRIBU-CR", "COMPROBANTE"} }
      [] k = "CICLO"   -> { {}, {"CICLO HURACAN", "NO COD PRODUCTO"},
                            {"CICLO HURACAN", "NO COD PRODUCTO", "TOTAL DE LÍNEA"},
                            {"CICLO HURACAN", "NO COD PRODUCTO", "TOTAL DE LINEA"} }
      [] k = "BRUJO"   -> { {}, {"EL BRUJO CARIBEÑO"},
                            {"EL BRUJO CARIBEÑO", "CÓDIGO UNIDAD CANTIDAD PRECIO"} }
      [] k = "ERIAL"   -> { {}, {"ERIAL BQ", "IMPUESTO"},
                            {"ERIAL BQ", "LINEA SKU", "IMPUESTO"} }
      [] k = "GAMBOA"  -> { {}, {"# DESCRIPCIÓN / CÓDIGO"},
                            {"GUSTAVO GAMBOA VILLALOBOS", "# DESCRIPCIÓN / CÓDIGO"} }

RECURSIVE DispatchPhraseSets(_)
DispatchPhraseSets(ks) ==
    IF ks = <<>> THEN {{}}
    ELSE {a \cup b : a \in DispatchOptions(Head(ks)), b \in DispatchPhraseSets(Tail(ks))}

\* one line for the item grammar of each template
DispatchLines ==
    [i \in 1..Len(Priority) |->
        Line({Priority[i]}, "1", <<"1", "0">>, <<"1">>, <<"1", "1">>, Priority[i])]

DispatchTexts ==
    {[phrases |-> ph, factura |-> "45", total |-> <<"1", "1">>, lines |-> ls, len |-> 80] :
        ph \in DispatchPhraseSets(Priority), ls \in {<<>>, DispatchLines}}

InitDispatch == InitBatch(Batches(DispatchTexts, {1})) /\ IdleNum /\ IdleCls /\ IdleNorm /\ IdleItems

SpecDispatch == InitDispatch /\ [][Next]_vars

\* Texts just below and at the length looks_scanned tests, with all the
\* anchors of one template or of none, and the empty text; batches of one or
\* two files
ScanPhrases ==
    { {},
      {"FERRETERIA FORLAN", "FACTURA ELECTR", "TOTAL A PAGAR"},
      {"FACTURA ELECTRONICA N°", "FACTURAELECTRONICA.CR"},
      {"WWW.HACIENDA.GO.CR", "TRIBU-CR", "COMPROBANTE"},
      {"CICLO HURACAN", "NO COD PRODUCTO", "TOTAL DE LINEA"},
      {"EL BRUJO CARIBEÑO", "CÓDIGO UNIDAD CANTIDAD PRECIO"},
      {"ERIAL BQ", "LINEA SKU", "IMPUESTO"},
      {"GUSTAVO GAMBOA VILLALOBOS", "# DESCRIPCIÓN / CÓDIGO"} }

ScanTexts ==
    {NoText} \cup
    {[NoText EXCEPT !.phrases = ph, !.len = n] :
        ph \in ScanPhrases, n \in {ScanThreshold - 1, ScanThreshold}}

InitScan == InitBatch(Batches(ScanTexts, {1, 2})) /\ IdleNum /\ IdleCls /\ IdleNorm /\ IdleItems

SpecScan == InitScan /\ [][Next]_vars

-----------------------------------------------------------------------------

\* Invoices of the templates whose line number is an unpadded \d+ capture or
\* a running count, with the item lines numbered 1 2 3, 2 10, or 1 to 10;
\* batches of one or two files
OrderTemplates == {"FORLAN", "TRIBU", "CICLO", "BRUJO", "ERIAL", "GAMBOA"}

OrderPhrases(k) ==
    CASE k = "FORLAN" -> {"FERRETERIA FORLAN", "FACTURA ELECTR", "TOTAL A PAGAR"}
      [] k = "TRIBU"  -> {"WWW.HACIENDA.GO.CR", "TRIBU-CR", "COMPROBANTE"}
      [] k = "CICLO"  -> {"CICLO HURACAN", "NO COD PRODUCTO", "TOTAL DE LINEA"}
      [] k = "BRUJO"  -> {"EL BRUJO CARIBEÑO", "CÓDIGO UNIDAD CANTIDAD PRECIO"}
      [] k = "ERIAL"  -> {"ERIAL BQ", "LINEA SKU", "IMPUESTO"}
      [] k = "GAMBOA" -> {"GUSTAVO GAMBOA VILLALOBOS", "# DESCRIPCIÓN / CÓDIGO"}

Numberings ==
    { <<"1", "2", "3">>, <<"2", "10">>,
      <<"1", "2", "3", "4", "5", "6", "7", "8", "9", "10">> }

OrderTexts ==
    {[phrases |-> OrderPhrases(k),
      factura |-> "45",
      total   |-> <<"9">>,
      lines   |-> [i \in 1..Len(nb) |->
                     Line({k}, nb[i], <<"1">>, <<"1">>, <<"2">>, nb[i])],
      len     |-> 600] : k \in OrderTemplates, nb \in Numberings}

\* Texts with all the anchors of one template or of none and up to two
\* currency phrases: the literals detect_currency looks for, and phrases it
\* passes over (" crc", "Colones")
CurrencyPhrases ==
    {" CRC", "Moneda: CRC", "Código Moneda........ CRC", "¢", " COP", "Pesos",
     "PESOS", "Bogotá - Colombia", "$", " crc", "Colones"}

CurrencyTexts ==
    {[NoText EXCEPT !.phrases = ph \cup cp, !.factura = "45", !.len = 600] :
        ph \in ScanPhrases,
        cp \in {c \in SUBSET CurrencyPhrases : Cardinality(c) <= 2}}

InitCurrency == InitBatch(Batches(CurrencyTexts, {1})) /\ IdleNum /\ IdleCls /\ IdleNorm /\ IdleItems

SpecCurrency == InitCurrency /\ [][Next]_vars

\* Invoices of the two templates whose line total is derived, with one or two
\* item lines; the subtotal and tax captures are strings of [0-9.,]+, some
\* of which float() rejects
TotalTemplates == {"NAVATEC", "BRUJO"}

TotalPhrases(k) ==
    CASE k = "NAVATEC" -> {"Factura Electrónica N°", "www.facturaelectronica.cr", "¢"}
      [] k = "BRUJO"   -> {"EL BRUJO CARIBEÑO", "CÓDIGO UNIDAD CANTIDAD PRECIO"}

Amounts ==
    { <<"2", "0">>, <<"2", ".", "6">>, <<"1", ",", "0", "0", "0", ".", "5">>,
      <<".">>, <<"1", ".", "2", ".", "3">> }

TotalTexts ==
    {[phrases |-> TotalPhrases(k),
      factura |-> "45",
      total   |-> <<"9">>,
      lines   |-> [i \in 1..Len(am) |->
                     Line({k}, IF i = 1 THEN "001" ELSE "002", am[i][1], am[i][2],
                          <<>>, "item")],
      len     |-> 600] :
        k \in TotalTemplates, am \in UNION {[1..n -> Amounts \X Amounts] : n \in 1..2}}

InitTotals == InitBatch(Batches(TotalTexts, {1})) /\ IdleNum /\ IdleCls /\ IdleNorm /\ IdleItems

SpecTotals == InitTotals /\ [][Next]_vars

InitOrder == InitBatch(Batches(OrderTexts, {1, 2})) /\ IdleNum /\ IdleCls /\ IdleNorm /\ IdleItems

SpecOrder == InitOrder /\ [][Next]_vars

\* process_files called with any audit_chars >= 0, not only those of the
\* slider, on batches of one or two files
AuditLimits == {0, 10, 2000}

InitAudit ==
    InitCall(Batches(BatchTexts, {1, 2}), AuditLimits) /\ IdleNum /\ IdleCls /\ IdleNorm /\ IdleItems

SpecAudit == InitAudit /\ [][Next]_vars

-----------------------------------------------------------------------------
(* The calls of parse_number_latam and of the detectors on their own *)

\* process_files not called
IdleBatch ==
    /\ files = <<>> /\ include_audit = FALSE /\ audit_chars = 0
    /\ idx = 0 /\ pc = "Idle"
    /\ pdf_bytes = Unbound /\ text = Unbound /\ cur = "" /\ sym = ""
    /\ branch = "" /\ inv = Unbound /\ items = <<>> /\ err = ""
    /\ fin_rows = <<>> /\ line_rows = <<>> /\ audit_rows = <<>>
    /\ calls = <<>> /\ raised = {}
    /\ fin_src = <<>> /\ line_src = <<>> /\ audit_src = <<>>
    /\ df_lines_src = <<>> /\ df_lines_ix = <<>> /\ n_items = <<>>
    /\ df_fin = <<>> /\ df_lines = <<>> /\ df_audit = <<>>

\* the characters of the strings handed to parse_number_latam
NumAlphabet == {"0", "1", ",", ".", "-", "a", " "}

\* the examples of the specification
NumExamples ==
    { <<"1", ".", "2", "3", "4", ".", "5", "6", "7", ",", "8", "9">>,
      <<"1", ",", "2", "3", "4", ",", "5", "6", "7", ".", "8", "9">>,
      <<"a", "b", "c">> }

NumInputs == NumExamples \cup UNION {[1..n -> NumAlphabet] : n \in 0..MaxNumLen}

InitNumber ==
    /\ IdleBatch /\ IdleCls /\ IdleNorm /\ IdleItems
    /\ num_pc = "call" /\ num_in \in NumInputs /\ num_out = None /\ num_src = NoSrc

\* the call returns a value, or an exception leaves it
ParseNumber ==
    /\ num_pc = "call"
    /\ num_out' = parse_number_latam(num_in)
    /\ num_pc' = IF IsRaise(parse_number_latam(num_in)) THEN "raised" ELSE "done"
    /\ UNCHANGED <<num_in, num_src, varsBatch, varsCls, varsNorm, varsItems>>

SpecNumber == InitNumber /\ [][ParseNumber]_vars

\* Decimals written out and handed to parse_number_latam.  A decimal is its
\* integer digits and its 0, 1 or 2 fraction digits.
RtDigits == {"0", "1", "2"}

IntParts ==
    {d \in UNION {[1..n -> RtDigits] : n \in 1..MaxIntDigits} :
        Len(d) = 1 \/ d[1] # "0"}

FracParts == UNION {[1..n -> RtDigits] : n \in 0..2}

\* the digits d in groups of three from the right, sep between the groups
RECURSIVE Grouped(_, _)
Grouped(d, sep) ==
    IF Len(d) <= 3 THEN d
    ELSE Grouped(SubSeq(d, 1, Len(d) - 3), sep) \o <<sep>>
         \o SubSeq(d, Len(d) - 2, Len(d))

\* comma-decimal style: dot thousands, comma decimal; dot-decimal style: comma
\* thousands, dot decimal.  A decimal without fraction digits gets no
\* decimal separator.
FormatDecimal(int, frac, style) ==
    LET thousands == IF style = "comma" THEN "." ELSE ","
        decimal   == IF style = "comma" THEN "," ELSE "."
    IN Grouped(int, thousands) \o (IF frac = <<>> THEN <<>> ELSE <<decimal>> \o frac)

InitRoundTrip ==
    /\ IdleBatch /\ IdleCls /\ IdleNorm /\ IdleItems
    /\ num_pc = "format" /\ num_in = <<>> /\ num_out = None
    /\ num_src \in [int : IntParts, frac : FracParts, style : {"comma", "dot"}]

\* the caller writes the decimal out
WriteDecimal ==
    /\ num_pc = "format"
    /\ num_in' = FormatDecimal(num_src.int, num_src.frac, num_src.style)
    /\ num_pc' = "call"
    /\ UNCHANGED <<num_out, num_src, varsBatch, varsCls, varsNorm, varsItems>>

NextRoundTrip ==
    \/ WriteDecimal
    \/ ParseNumber

SpecRoundTrip == InitRoundTrip /\ [][NextRoundTrip]_vars

\* the characters of the texts handed to normalize_text
TextAlphabet == {"a", " ", "\t", "\n", "\r", NBSP}

\* None, and every text of up to MaxTextLen characters
NormInputs == {None} \cup UNION {[1..n -> TextAlphabet] : n \in 0..MaxTextLen}

InitNormalize ==
    /\ IdleBatch /\ IdleNum /\ IdleCls /\ IdleItems
    /\ nt_pc = "call" /\ nt_in \in NormInputs /\ nt_once = <<>> /\ nt_twice = <<>>

NormalizeOnce ==
    /\ nt_pc = "call"
    /\ nt_once' = normalize_text(nt_in)
    /\ nt_pc' = "once"
    /\ UNCHANGED <<nt_in, nt_twice, varsBatch, varsNum, varsCls, varsItems>>

NormalizeAgain ==
    /\ nt_pc = "once"
    /\ nt_twice' = normalize_text(nt_once)
    /\ nt_pc' = "twice"
    /\ UNCHANGED <<nt_in, nt_once, varsBatch, varsNum, varsCls, varsItems>>

NextNormalize ==
    \/ NormalizeOnce
    \/ NormalizeAgain

SpecNormalize == InitNormalize /\ [][NextNormalize]_vars

\* the anchor phrases of each detector: every group must occur, in one of
\* its spellings
ClassifyOptions(k) ==
    CASE k = "FORLAN"  -> { {}, {"FACTURA ELECTR", "TOTAL A PAGAR"},
                            {"FERRETERIA FORLAN", "TOTAL A PAGAR"},
                            {"FERRETERIA FORLAN", "FACTURA ELECTR"},
                            {"FERRETERIA FORLAN", "FACTURA ELECTR", "TOTAL A PAGAR"} }
      [] k = "NAVATEC" -> { {}, {"FACTURAELECTRONICA.CR"},
                            {"FACTURA ELECTRÓNICA N°"}, {"FACTURA ELECTRONICA N°"},
                            {"Factura Electrónica N°"},
                            {"FACTURA ELECTRÓNICA N°", "FACTURAELECTRONICA.CR"},
                            {"FACTURA ELECTRONICA N°", "FACTURAELECTRONICA.CR"},
                            {"Factura Electrónica N°", "www.facturaelectronica.cr"} }
      [] k = "TRIBU"   -> { {}, {"TRIBU-CR", "COMPROBANTE"},
                            {"WWW.HACIENDA.GO.CR", "COMPROBANTE"},
                            {"WWW.HACIENDA.GO.CR", "TRIBU-CR"},
                            {"WWW.HACIENDA.GO.CR", "TRIBU-CR", "COMPROBANTE"} }
      [] k = "CICLO"   -> { {}, {"NO COD PRODUCTO", "TOTAL DE LÍNEA"},
                            {"CICLO HURACAN", "TOTAL DE LINEA"},
                            {"CICLO HURACAN", "NO COD PRODUCTO"},
                            {"CICLO HURACAN", "NO COD PRODUCTO", "TOTAL DE LÍNEA"},
                            {"CICLO HURACAN", "NO COD PRODUCTO", "TOTAL DE LINEA"} }
      [] k = "BRUJO"   -> { {}, {"EL BRUJO CARIBEÑO"}, {"CÓDIGO UNIDAD CANTIDAD PRECIO"},
                            {"EL BRUJO CARIBEÑO", "CÓDIGO UNIDAD CANTIDAD PRECIO"} }
      [] k = "ERIAL"   -> { {}, {"LINEA SKU", "IMPUESTO"}, {"ERIAL BQ", "Total Impuesto"},
                            {"ERIAL BQ", "LINEA SKU"},
                            {"ERIAL BQ", "LINEA SKU", "IMPUESTO"} }
      [] k = "GAMBOA"  -> { {}, {"GUSTAVO GAMBOA VILLALOBOS"}, {"# DESCRIPCIÓN / CÓDIGO"},
                            {"GUSTAVO GAMBOA VILLALOBOS", "# DESCRIPCIÓN / CÓDIGO"} }

RECURSIVE ClassifyPhraseSets(_)
ClassifyPhraseSets(ks) ==
    IF ks = <<>> THEN {{}}
    ELSE {a \cup b : a \in ClassifyOptions(Head(ks)), b \in ClassifyPhraseSets(Tail(ks))}

ClassifyTexts ==
    {[NoText EXCEPT !.phrases = ph, !.len = 80] : ph \in ClassifyPhraseSets(Priority)}

InitClassify ==
    /\ IdleBatch /\ IdleNum /\ IdleNorm /\ IdleItems
    /\ cls_pc = "call" /\ cls_text \in ClassifyTexts
    /\ cls_out = [k \in Template |-> FALSE]

\* the seven detectors, called on the same text
CallDetectors ==
    /\ cls_pc = "call"
    /\ cls_out' = [k \in Template |-> Detects(k, cls_text)]
    /\ cls_pc' = "done"
    /\ UNCHANGED <<cls_text, varsBatch, varsNum, varsNorm, varsItems>>

SpecClassify == InitClassify /\ [][CallDetectors]_vars

-----------------------------------------------------------------------------

\* items_tribu_hacienda_cr and items_ciclo_huracan on texts of up to
\* MaxScanLines lines, one step of their loops at a time
LineShapes ==
    { <<"1", " ", TenDigits, " ", "x">>,            \* an item header of both parsers
      <<" ", "2", " ", TenDigits, " ", "x", " ">>,  \* one with blanks around it
      <<"3", " ", "4", " ", "x">>,                  \* a short code: CICLO only
      <<"5", " ", TenDigits, " ">>,                 \* number and code, no description
      <<"x", " ", "6">>,                            \* a line of amounts
      <<"OBSERVACIONES", " ", "x">>,
      <<"Comentario">>,
      <<" ">> }                                     \* a blank line

InitItems == IdleItems /\ IdleBatch /\ IdleNum /\ IdleCls /\ IdleNorm

\* the call: ln_list = lines(text), i = 0
CallItems ==
    /\ ml_pc = "idle"
    /\ ml_fn' \in {"TRIBU", "CICLO"}
    /\ ml_text' \in UNION {[1..n -> LineShapes] : n \in 0..MaxScanLines}
    /\ ln_list' = lines(ml_text')
    /\ ml_i' = 0
    /\ out' = <<>>
    /\ ml_pc' = "outer"
    /\ UNCHANGED <<ml_j, blob>>
    /\ UNCHANGED <<varsBatch, varsNum, varsCls, varsNorm>>

\* while i < len(ln_list): no match, i += 1
SkipLine ==
    /\ ml_pc = "outer"
    /\ ml_i < Len(ln_list)
    /\ ~item_header(ml_fn, ln_list[ml_i + 1])
    /\ ml_i' = ml_i + 1
    /\ UNCHANGED <<ml_pc, ml_fn, ml_text, ln_list, ml_j, blob, out>>
    /\ UNCHANGED <<varsBatch, varsNum, varsCls, varsNorm>>

\* a match: j = i + 1, blob = ""
OpenRecord ==
    /\ ml_pc = "outer"
    /\ ml_i < Len(ln_list)
    /\ item_header(ml_fn, ln_list[ml_i + 1])
    /\ ml_j' = ml_i + 1
    /\ blob' = <<>>
    /\ ml_pc' = "inner"
    /\ UNCHANGED <<ml_fn, ml_text, ln_list, ml_i, out>>
    /\ UNCHANGED <<varsBatch, varsNum, varsCls, varsNorm>>

\* while j < len(ln_list): neither break taken, blob += " " + ln_list[j]
Accumulate ==
    /\ ml_pc = "inner"
    /\ ml_j < Len(ln_list)
    /\ ~is_terminator(ml_fn, ln_list[ml_j + 1])
    /\ ~next_item(ml_fn, ln_list[ml_j + 1])
    /\ blob' = blob \o <<" ">> \o ln_list[ml_j + 1]
    /\ ml_j' = ml_j + 1
    /\ UNCHANGED <<ml_pc, ml_fn, ml_text, ln_list, ml_i, out>>
    /\ UNCHANGED <<varsBatch, varsNum, varsCls, varsNorm>>

\* the inner loop left by a break or by its condition: out.append, i = j
CloseRecord ==
    /\ ml_pc = "inner"
    /\ \/ ml_j >= Len(ln_list)
       \/ /\ ml_j < Len(ln_list)
          /\ \/ is_terminator(ml_fn, ln_list[ml_j + 1])
             \/ next_item(ml_fn, ln_list[ml_j + 1])
    /\ out' = Append(out, ScanRecord(ln_list[ml_i + 1], blob))
    /\ ml_i' = ml_j
    /\ ml_pc' = "outer"
    /\ UNCHANGED <<ml_fn, ml_text, ln_list, ml_j, blob>>
    /\ UNCHANGED <<varsBatch, varsNum, varsCls, varsNorm>>

\* return out
ReturnItems ==
    /\ ml_pc = "outer"
    /\ ml_i >= Len(ln_list)
    /\ ml_pc' = "returned"
    /\ UNCHANGED <<ml_fn, ml_text, ln_list, ml_i, ml_j, blob, out>>
    /\ UNCHANGED <<varsBatch, varsNum, varsCls, varsNorm>>

NextItems ==
    \/ CallItems
    \/ SkipLine
    \/ OpenRecord
    \/ Accumulate
    \/ CloseRecord
    \/ ReturnItems

SpecItems == InitItems /\ [][NextItems]_vars

-----------------------------------------------------------------------------
(* Properties of process_files, checked under Spec *)

\* the files whose loop body has been left, by its end or by its except branch
Completed == IF pc \in {"Done", "Failed", "Returned"} THEN 1..idx ELSE 1..(idx - 1)

\* the rows of a table that were appended for file i, in the table's order
RECURSIVE Pick(_, _, _)
Pick(rows, src, i) ==
    IF rows = <<>> THEN <<>>
    ELSE (IF Head(src) = i THEN <<Head(rows)>> ELSE <<>>)
         \o Pick(Tail(rows), Tail(src), i)

\* the number of items the line parser returned for file i
NItems(i) == SelectSeq(n_items, LAMBDA p : p[1] = i)[1][2]

\* C1: the returned header table has exactly one row per input document, in
\* upload order: row i carries the name of the i-th file, whether the
\* document was processed or raised.
C1_OneHeaderRowPerDocument ==
    pc = "Returned" =>
        /\ Len(df_fin) = Len(files)
        /\ \A i \in 1..Len(files) : df_fin[i].Documento = files[i].name

\* a returned batch of three files, some of them raising, names not in order
C1_Witness ==
    /\ pc = "Returned"
    /\ Len(files) = 3
    /\ raised # {} /\ raised # 1..3
    /\ files[1].name = "b.pdf" /\ files[2].name = "a.pdf"
    /\ Len(df_fin) = 3

\* What process_files appends for one file when the batch holds that file
\* alone: every local and every table starts empty.
SoloHeader(f) ==
    LET t == f.content.text
        m == detect_currency(t)
        h == HeaderOf(Dispatch(t), t, f.name, m[1], m[2])
    IN [c \in Range(FIN_COLS) |-> h[c]]

SoloLines(f) ==
    LET t  == f.content.text
        m  == detect_currency(t)
        h  == HeaderOf(Dispatch(t), t, f.name, m[1], m[2])
        it == ItemsOf(Dispatch(t), t, h)
    IN IF it # <<>> THEN it ELSE <<NoLinesRow(h)>>

SoloAudit(f) ==
    IF include_audit THEN <<AuditRow(f.name, f.content.text, audit_chars)>> ELSE <<>>

\* the line rows of a file as the returned table of its own batch holds them
SoloLinesSorted(f) ==
    Take(SoloLines(f), SortIndexer(SoloLines(f), Len(SoloLines(f))))

\* C2: batch isolation.  The header, line and audit rows of a document that
\* does not fail are those it gets when processed alone, whatever other
\* documents of the batch fail; a batch of three whose second raises in text
\* extraction returns three header rows, the second flagged ERROR and the
\* first and third as if processed alone.
C2_BatchIsolation ==
    /\ \A i \in Completed \ raised :
          /\ Pick(fin_rows, fin_src, i) = <<SoloHeader(files[i])>>
          /\ Pick(line_rows, line_src, i) = SoloLines(files[i])
          /\ Pick(audit_rows, audit_src, i) = SoloAudit(files[i])
    /\ pc = "Returned" =>
          /\ \A i \in (1..Len(files)) \ raised :
                /\ Pick(df_fin, fin_src, i) = <<SoloHeader(files[i])>>
                /\ Pick(df_lines, df_lines_src, i) = SoloLinesSorted(files[i])
                /\ Pick(df_audit, audit_src, i) = SoloAudit(files[i])
          /\ (Len(files) = 3 /\ raised = {2}) =>
                /\ Len(df_fin) = 3
                /\ df_fin[2].Metodo_Extraccion = "ERROR"
                /\ df_fin[1] = SoloHeader(files[1])
                /\ df_fin[3] = SoloHeader(files[3])

\* three documents, the second raising in text extraction between an invoice
\* with item lines and one without
C2_Witness ==
    /\ pc = "Returned"
    /\ Len(files) = 3
    /\ raised = {2}
    /\ files[1].content = Pdf(TextNavatec)
    /\ files[3].content = Pdf(TextForlan)
    /\ include_audit
    /\ Len(df_fin) = 3 /\ Len(df_lines) = 5 /\ Len(df_audit) = 3

\* C3: no exception of a step of a document's processing, the reading of its
\* bytes included, escapes process_files.  uf.read() stands before the try,
\* so the model reaches the state in which its exception has left the call.
C3_NoExceptionEscapes == pc # "Raised"

\* the rows of a raising file i in the given tables
ErrorRowsOnly(fin, fsrc, lrows, lsrc, aud, asrc, i) ==
    LET f   == Pick(fin, fsrc, i)
        l   == Pick(lrows, lsrc, i)
        a   == Pick(aud, asrc, i)
        msg == files[i].content.msg
    IN /\ Len(f) = 1
       /\ DOMAIN f[1] = Range(FIN_COLS)
       /\ f[1].Documento = files[i].name
       /\ f[1].Metodo_Extraccion = "ERROR"
       /\ f[1].Error = msg
       /\ \A c \in Range(FIN_COLS) \ {"Documento", "Metodo_Extraccion", "Error"} :
             IF c \in FinNumCols THEN f[1][c] = Blank ELSE f[1][c] = ""
       /\ Len(l) = 1
       /\ l[1].Documento = files[i].name
       /\ l[1].Factura_Numero = ""
       /\ l[1].Descripcion_Raw = "ERROR: " \o msg
       /\ IF include_audit
          THEN /\ Len(a) = 1
               /\ a[1].Documento = files[i].name
               /\ a[1].Texto.of = "ERROR: " \o msg
          ELSE a = <<>>

\* C4: a document whose processing raises contributes one header row (its
\* name, Metodo_Extraccion "ERROR", the message in Error, every other column
\* empty), one line row (its name, empty Factura_Numero, "ERROR: <message>"
\* in Descripcion_Raw) and, with auditing on only, one audit row carrying the
\* error text; nothing else.
C4_ErrorRows ==
    /\ \A i \in Completed \cap raised :
          ErrorRowsOnly(fin_rows, fin_src, line_rows, line_src,
                        audit_rows, audit_src, i)
    /\ pc = "Returned" =>
          \A i \in raised :
              ErrorRowsOnly(df_fin, fin_src, df_lines, df_lines_src,
                            df_audit, audit_src, i)

\* a returned batch in which a document raised after one that did not, with
\* auditing on
C4_Witness ==
    /\ pc = "Returned"
    /\ include_audit
    /\ \E i \in raised : i > 1 /\ (i - 1) \notin raised
    /\ \E j \in 1..Len(df_lines) :
          df_lines[j].Descripcion_Raw = "ERROR: EOF marker not found"

\* the line rows of a file i that did not raise, in the given tables
MarkerRows(fin, fsrc, lrows, lsrc, i) ==
    LET l     == Pick(lrows, lsrc, i)
        h     == Pick(fin, fsrc, i)[1]
        marks == {j \in 1..Len(l) : l[j].Descripcion_Raw = "SIN_LINEAS_DETECTADAS"}
    IN /\ (marks # {}) <=> (NItems(i) = 0)
       /\ marks # {} =>
             /\ Len(l) = 1
             /\ l[1].Factura_Numero = h.Factura_Numero
             /\ l[1].Documento = h.Documento

\* C5: for a document processed without exception the line table holds a
\* SIN_LINEAS_DETECTADAS row of it exactly when its line parser returned no
\* item; the row is then its only line row and carries the header's
\* Factura_Numero and Documento.  Every input document has a line row.
C5_NoLinesMarker ==
    /\ \A i \in Completed \ raised :
          MarkerRows(fin_rows, fin_src, line_rows, line_src, i)
    /\ pc = "Returned" =>
          /\ \A i \in (1..Len(files)) \ raised :
                MarkerRows(df_fin, fin_src, df_lines, df_lines_src, i)
          /\ \A i \in 1..Len(files) : Pick(df_lines, df_lines_src, i) # <<>>

\* a returned batch with a document without items, one with three items and
\* one that raised
C5_Witness ==
    /\ pc = "Returned"
    /\ raised # {}
    /\ \E i, j \in (1..Len(files)) \ raised :
          /\ NItems(i) = 0 /\ NItems(j) = 3
          /\ Len(Pick(df_lines, df_lines_src, i)) = 1
          /\ Len(Pick(df_lines, df_lines_src, j)) = 3

\* the code points of a str
CodePoints(s) == [i \in 1..Len(Chars(s)) |-> Ord(Chars(s)[i])]

\* x <= y, lexicographically, on sequences of numbers
LexLeq(x, y) ==
    \E n \in 0..Min(Len(x), Len(y)) :
        /\ \A i \in 1..n : x[i] = y[i]
        /\ \/ n = Len(x)
           \/ n < Len(y) /\ x[n + 1] < y[n + 1]

\* the sort key of a row, as code points
SortKey(r) ==
    <<CodePoints(r.Factura_Numero), CodePoints(r.Documento), CodePoints(r.Linea)>>

\* k1 <= k2 on sort keys
SortKeyLeq(k1, k2) ==
    \/ k1[1] # k2[1] /\ LexLeq(k1[1], k2[1])
    \/ k1[1] = k2[1] /\ k1[2] # k2[2] /\ LexLeq(k1[2], k2[2])
    \/ k1[1] = k2[1] /\ k1[2] = k2[2] /\ LexLeq(k1[3], k2[3])

\* the number of times r occurs in q
Count(q, r) == Cardinality({i \in 1..Len(q) : q[i] = r})

\* C9: the returned line table is a permutation of the appended line rows,
\* in non-decreasing order of (Factura_Numero, Documento, Linea), rows of
\* equal key in the order of their appending.
C9_StableSortedPermutation ==
    pc = "Returned" =>
        /\ Len(df_lines) = Len(line_rows)
        /\ \A r \in Range(line_rows) \cup Range(df_lines) :
              Count(df_lines, r) = Count(line_rows, r)
        /\ Range(df_lines_ix) = 1..Len(line_rows)
        /\ \A i \in 1..Len(df_lines) : df_lines[i] = line_rows[df_lines_ix[i]]
        /\ \A i, j \in 1..Len(df_lines) :
              i < j =>
                 /\ SortKeyLeq(SortKey(df_lines[i]), SortKey(df_lines[j]))
                 /\ SortKey(df_lines[i]) = SortKey(df_lines[j])
                       => df_lines_ix[i] < df_lines_ix[j]

\* a returned table that the sort reordered and that holds two rows of one key
C9_Witness ==
    /\ pc = "Returned"
    /\ df_lines # line_rows
    /\ \E i, j \in 1..Len(df_lines) :
          /\ i < j
          /\ SortKey(df_lines[i]) = SortKey(df_lines[j])
          /\ df_lines[i] # df_lines[j]

-----------------------------------------------------------------------------
(* Properties of the dispatch, checked under SpecDispatch *)

\* the first template of the priority order whose detector holds of t
FirstMatch(t) ==
    LET ms == {i \in 1..Len(Priority) : Detects(Priority[i], t)}
    IN IF ms = {} THEN "GENERIC"
       ELSE Priority[CHOOSE i \in ms : \A j \in ms : i <= j]

\* the fixed label of each template, and the generic label
MethodLabel(k) ==
    CASE k = "FORLAN"  -> "FORLAN CO (header + líneas)"
      [] k = "NAVATEC" -> "NAVATEC CR (header + líneas)"
      [] k = "TRIBU"   -> "TRIBU-CR / Hacienda (header + líneas)"
      [] k = "CICLO"   -> "CICLO HURACAN (header + líneas)"
      [] k = "BRUJO"   -> "EL BRUJO CARIBEÑO (header + líneas)"
      [] k = "ERIAL"   -> "ERIAL BQ (header + líneas)"
      [] k = "GAMBOA"  -> "GUSTAVO GAMBOA (header + líneas)"
      [] k = "GENERIC" -> "Genérico (header)"

\* C6: in every returned header row Metodo_Extraccion is non-empty; it is
\* "ERROR" exactly when the document's processing raised, and otherwise the
\* label of the selected template or the generic label; a row that is not
\* ERROR has an empty Error.
C6_MethodLabel ==
    pc = "Returned" =>
        \A i \in 1..Len(df_fin) :
            LET r == df_fin[i]
                d == fin_src[i]
            IN /\ r.Metodo_Extraccion # ""
               /\ (r.Metodo_Extraccion = "ERROR") <=> (d \in raised)
               /\ d \notin raised =>
                     /\ r.Metodo_Extraccion =
                           MethodLabel(FirstMatch(files[d].content.text))
                     /\ r.Error = ""

\* a returned row of a template that takes the generic header parser and
\* sets its own label
C6_Witness ==
    /\ pc = "Returned"
    /\ Len(df_fin) = 1
    /\ raised = {}
    /\ df_fin[1].Metodo_Extraccion = "EL BRUJO CARIBEÑO (header + líneas)"
    /\ df_fin[1].Error = ""

\* the extractors of each template
HeaderExtractor(k) ==
    CASE k = "FORLAN"  -> "parse_forlan_co_header"
      [] k = "NAVATEC" -> "parse_navatec_cr_header"
      [] k = "TRIBU"   -> "parse_tribu_hacienda_cr_header"
      [] k \in {"CICLO", "BRUJO", "ERIAL", "GAMBOA", "GENERIC"} -> "parse_generic_header"

LineExtractor(k) ==
    CASE k = "FORLAN"  -> <<"items_forlan_co">>
      [] k = "NAVATEC" -> <<"items_navatec_cr">>
      [] k = "TRIBU"   -> <<"items_tribu_hacienda_cr">>
      [] k = "CICLO"   -> <<"items_ciclo_huracan">>
      [] k = "BRUJO"   -> <<"items_brujo_caribeno">>
      [] k = "ERIAL"   -> <<"items_erial_office_depot">>
      [] k = "GAMBOA"  -> <<"items_gustavo_gamboa">>
      [] k = "GENERIC" -> <<>>

\* C7: the dispatch takes the first template, in the order FORLAN, NAVATEC,
\* TRIBU, CICLO, BRUJO, ERIAL, GAMBOA, whose detector holds.  One header
\* extractor and at most one line extractor run, those of that template;
\* when no detector holds the generic header extractor runs and no line
\* extractor, and the document gets the marker row only.
C7_FirstMatchDispatch ==
    (/\ pc \in {"LinesExtracted", "Done", "Returned"}
     /\ idx \in 1..Len(files)
     /\ idx \notin raised) =>
        LET k == FirstMatch(files[idx].content.text)
        IN /\ branch = k
           /\ calls = <<HeaderExtractor(k)>> \o LineExtractor(k)
           /\ Len(calls) <= 2
           /\ (k = "GENERIC" /\ pc # "LinesExtracted") =>
                 /\ calls = <<"parse_generic_header">>
                 /\ Len(Pick(line_rows, line_src, idx)) = 1
                 /\ Pick(line_rows, line_src, idx)[1].Descripcion_Raw
                       = "SIN_LINEAS_DETECTADAS"

\* a text of which three detectors hold, dispatched to the first of them
C7_Witness ==
    /\ pc = "Returned"
    /\ Len(files) = 1 /\ raised = {}
    /\ ~is_forlan_co(text) /\ ~is_navatec_cr(text) /\ ~is_tribu_cr_hacienda(text)
    /\ is_ciclo_huracan(text) /\ is_erial_office_depot(text) /\ is_gustavo_gamboa(text)
    /\ branch = "CICLO"
    /\ calls = <<"parse_generic_header", "items_ciclo_huracan">>

-----------------------------------------------------------------------------
(* Properties of the detectors, checked under SpecClassify *)

\* the anchor phrases of each template: one phrase of every group is required
Anchors(k) ==
    CASE k = "FORLAN"  -> {{"FERRETERIA FORLAN"}, {"FACTURA ELECTR"}, {"TOTAL A PAGAR"}}
      [] k = "NAVATEC" -> {{"FACTURA ELECTRÓNICA N°", "FACTURA ELECTRONICA N°"},
                           {"FACTURAELECTRONICA.CR"}}
      [] k = "TRIBU"   -> {{"WWW.HACIENDA.GO.CR"}, {"TRIBU-CR"}, {"COMPROBANTE"}}
      [] k = "CICLO"   -> {{"CICLO HURACAN"}, {"NO COD PRODUCTO"},
                           {"TOTAL DE LÍNEA", "TOTAL DE LINEA"}}
      [] k = "BRUJO"   -> {{"EL BRUJO CARIBEÑO"}, {"CÓDIGO UNIDAD CANTIDAD PRECIO"}}
      [] k = "ERIAL"   -> {{"ERIAL BQ"}, {"LINEA SKU"}, {"IMPUESTO"}}
      [] k = "GAMBOA"  -> {{"GUSTAVO GAMBOA VILLALOBOS"}, {"# DESCRIPCIÓN / CÓDIGO"}}

\* the upper-cased text holds every required anchor of template k
HasAnchors(t, k) == \A g \in Anchors(k) : \E p \in g : UpperHas(t, p)

\* the anchor phrases of template k that the upper-cased text holds
AnchorsFound(t, k) == {p \in UNION Anchors(k) : UpperHas(t, p)}

\* C8: of a text that holds all anchors of exactly one template, lacking a
\* required anchor of every other, that template's detector is true and the
\* six others are false; no detector is true on fewer than two anchor
\* phrases.
C8_DetectorsExclusive ==
    cls_pc = "done" =>
        /\ \A k \in Template :
              (/\ HasAnchors(cls_text, k)
               /\ \A j \in Template \ {k} : ~HasAnchors(cls_text, j)) =>
                  /\ cls_out[k]
                  /\ \A j \in Template \ {k} : ~cls_out[j]
        /\ \A k \in Template :
              cls_out[k] => Cardinality(AnchorsFound(cls_text, k)) >= 2

\* a NAVATEC text, written in mixed case, that also holds some anchors of
\* other templates
C8_Witness ==
    /\ cls_pc = "done"
    /\ RawHas(cls_text, "Factura Electrónica N°")
    /\ UpperHas(cls_text, "FERRETERIA FORLAN")
    /\ UpperHas(cls_text, "ERIAL BQ")
    /\ cls_out["NAVATEC"]
    /\ \A j \in Template \ {"NAVATEC"} : ~cls_out[j]

-----------------------------------------------------------------------------
(* Properties of parse_number_latam, checked under SpecNumber *)

\* The string the description of the parser leads to: the characters other
\* than digits, comma, dot and minus dropped, the later of the rightmost
\* comma and the rightmost dot made the decimal point, the other separator
\* dropped.
LatamCanonical(s) ==
    LET k       == SelectSeq(s, LAMBDA c : c \in Digits \cup {",", ".", "-"})
        Pos(c)  == {i \in 1..Len(k) : k[i] = c}
        Last(c) == IF Pos(c) = {} THEN 0
                   ELSE CHOOSE i \in Pos(c) : \A j \in Pos(c) : j <= i
        dec     == IF Last(",") > Last(".") THEN "," ELSE "."
        other   == IF dec = "," THEN "." ELSE ","
        kept    == SelectSeq(k, LAMBDA c : c # other)
    IN [i \in 1..Len(kept) |-> IF kept[i] = dec THEN "." ELSE kept[i]]

\* C10: parse_number_latam drops every character other than digits, comma,
\* dot and minus, takes the later of the rightmost comma and the rightmost
\* dot for the decimal separator and removes the other separator;
\* "1.234.567,89" and "1,234,567.89" give 1234567.89 and "abc" gives no value.
C10_ParseNumberLatam ==
    num_pc = "done" =>
        /\ num_out = FloatOrNone(LatamCanonical(num_in))
        /\ num_in = <<"1", ".", "2", "3", "4", ".", "5", "6", "7", ",", "8", "9">>
              => num_out = Float(123456789, 2)
        /\ num_in = <<"1", ",", "2", "3", "4", ",", "5", "6", "7", ".", "8", "9">>
              => num_out = Float(123456789, 2)
        /\ num_in = <<"a", "b", "c">> => num_out = None

\* the parser has returned 1234567.89 for "1.234.567,89"
C10_Witness ==
    /\ num_pc = "done"
    /\ num_in = <<"1", ".", "2", "3", "4", ".", "5", "6", "7", ",", "8", "9">>
    /\ RFind(KeepNumChars(num_in), ",") > RFind(KeepNumChars(num_in), ".")
    /\ num_out = <<"float", 123456789, 2>>

\* C11: on every string parse_number_latam returns a number or no value and
\* never raises; it returns no value when the string holds no digit.
C11_ParseNumberNeverRaises ==
    /\ num_pc # "raised"
    /\ num_pc = "done" =>
          /\ num_out = None \/ num_out[1] = "float"
          /\ (\A i \in 1..Len(num_in) : num_in[i] \notin Digits) => num_out = None

\* a string with a misplaced minus, which float() rejects, gave no value
C11_Witness ==
    /\ num_pc = "done"
    /\ num_in = <<"1", "-", ".", "1">>
    /\ IsRaise(PyFloat(KeepNumChars(num_in)))
    /\ num_out = None

\* the value of a decimal given by its integer and fraction digits
DecimalValue(int, frac) == Normalize(DigitsToInt(int \o frac), Len(frac))

\* C12: round trip.  A non-negative decimal with 0, 1 or 2 decimal digits,
\* written in comma-decimal or in dot-decimal style with thousands
\* separators, parses back to itself.  It does not: a decimal of 1000 or more
\* without fraction digits is written with thousands separators only, and
\* the parser takes the last of them for the decimal point.
C12_RoundTrip ==
    num_pc = "done" => num_out = DecimalValue(num_src.int, num_src.frac)

-----------------------------------------------------------------------------
(* Properties of normalize_text, checked under SpecNormalize *)

\* C13: normalize_text is idempotent: normalizing the normalized text of any
\* input (None, no-break spaces, tabs, runs of blanks, runs of newlines,
\* blanks between newlines) gives the same text.
C13_NormalizeIdempotent ==
    nt_pc = "twice" => nt_twice = nt_once

\* a text with a no-break space next to a blank and a run of newlines was
\* normalized twice, the first call changing it
C13_Witness ==
    /\ nt_pc = "twice"
    /\ nt_in = <<"a", " ", NBSP, "\n", "a">>
    /\ nt_once = <<"a", " ", "\n", "a">>
    /\ nt_twice = nt_once

-----------------------------------------------------------------------------
(* Properties of the audit table, checked under Spec *)

\* C14: with include_audit false the returned audit table has no row; with
\* include_audit true it has one row per input document, in processing
\* order, with the file name in Documento and, for a document that did not
\* fail, the length of the whole extracted text in Longitud_Texto.
C14_AuditTable ==
    pc = "Returned" =>
        IF include_audit
        THEN /\ Len(df_audit) = Len(files)
             /\ \A i \in 1..Len(files) :
                   /\ df_audit[i].Documento = files[i].name
                   /\ i \notin raised =>
                         df_audit[i].Longitud_Texto = files[i].content.text.len
        ELSE df_audit = <<>>

\* an audited batch with a failed document and a text longer than the limit
C14_Witness ==
    /\ pc = "Returned"
    /\ include_audit
    /\ Len(df_audit) = 3
    /\ raised # {}
    /\ \E i \in 1..3 : df_audit[i].Longitud_Texto > audit_chars

\* C15: with audit_chars >= 0 the Texto of every audit row, that of a failed
\* document included, has at most audit_chars characters.  It has not: the
\* except branch writes "ERROR: <message>" into Texto whole.
C15_AuditTextBounded ==
    \A i \in 1..Len(audit_rows) : audit_rows[i].Texto.chars <= audit_chars

-----------------------------------------------------------------------------
(* Properties of the scanned flag, checked under SpecScan *)

\* the header columns that are not read from the text
NotExtracted ==
    {"Documento", "Tipo_Documento", "Probable_Escaneado", "Metodo_Extraccion"}

\* C16: in a header row that is not an ERROR row Probable_Escaneado is "SI"
\* exactly when the extracted text has fewer than 50 characters, "NO"
\* otherwise.  The empty text gives a header with "SI", the generic label and
\* every extracted field empty or null, and one marker line row.
C16_ProbableEscaneado ==
    pc = "Returned" =>
        \A i \in 1..Len(df_fin) :
            LET r == df_fin[i]
                t == files[fin_src[i]].content.text
                l == Pick(df_lines, df_lines_src, fin_src[i])
            IN r.Metodo_Extraccion # "ERROR" =>
                  /\ r.Probable_Escaneado = (IF t.len < 50 THEN "SI" ELSE "NO")
                  /\ t = NoText =>
                        /\ r.Probable_Escaneado = "SI"
                        /\ r.Metodo_Extraccion = "Genérico (header)"
                        /\ \A c \in Range(FIN_COLS) \ NotExtracted :
                              IF c \in FinNumCols THEN r[c] = None ELSE r[c] = ""
                        /\ Len(l) = 1
                        /\ l[1].Descripcion_Raw = "SIN_LINEAS_DETECTADAS"

\* the empty text, and texts of 49 and of 50 characters that a template takes
C16_Witness ==
    /\ pc = "Returned"
    /\ \E i \in 1..Len(df_fin) :
          /\ files[i].content = Pdf(NoText)
          /\ df_fin[i].Probable_Escaneado = "SI"
    /\ \E i \in 1..Len(df_fin) :
          /\ files[i].content.text.len = 49
          /\ df_fin[i].Metodo_Extraccion = "ERIAL BQ (header + líneas)"
          /\ df_fin[i].Probable_Escaneado = "SI"

-----------------------------------------------------------------------------
(* The life of a document, checked under SpecLive *)

\* the positions a step may lead to
Successors(p) ==
    CASE p = "Start"           -> {"TextExtracted", "Except"}
      [] p = "TextExtracted"   -> {"Classified"}
      [] p = "Classified"      -> {"HeaderExtracted"}
      [] p = "HeaderExtracted" -> {"LinesExtracted"}
      [] p = "LinesExtracted"  -> {"Done"}
      [] p = "Except"          -> {"Failed"}
      [] p \in {"Begin", "Done", "Failed"} -> {"Start", "Returned"}
      [] OTHER                 -> {}

\* a step keeps to the order of the states, stays with its document unless
\* that is in a terminal state, and runs no extraction for a failed document
InOrder ==
    /\ pc' \in Successors(pc)
    /\ idx' # idx => (pc \in {"Begin", "Done", "Failed"} /\ idx' = idx + 1)
    /\ idx \in raised => pc' \in {"Failed", "Start", "Returned"}

\* C17: each document goes through Start, TextExtracted, Classified,
\* HeaderExtracted, LinesExtracted, Done in that order, or to Failed when a
\* step raises; every document reaches Done or Failed; no extraction step
\* runs for a failed document; document k+1 does not start before document k
\* is in a terminal state; process_files returns.  A document whose read()
\* raises reaches neither Done nor Failed, and neither do those after it.
C17_DocumentLifecycle ==
    /\ [][InOrder]_vars
    /\ \A k \in 1..MaxFiles : (k <= Len(files)) ~> (k \in Completed)
    /\ <>(pc = "Returned")

-----------------------------------------------------------------------------

\* int(Linea) of a line row
LineNumber(r) == DigitsToInt(Chars(r.Linea))

\* the rows of document i that an item parser made
ItemRows(i) ==
    SelectSeq(Pick(df_lines, df_lines_src, i), LAMBDA r : r.Linea # "")

\* C18: in the returned table the item rows of one document are in ascending
\* order of the line number read as a number (line 2 before line 10), for
\* the templates FORLAN, TRIBU-CR, CICLO HURACAN, EL BRUJO CARIBEÑO, ERIAL BQ
\* and GUSTAVO GAMBOA.
C18_NumericLineOrder ==
    pc = "Returned" =>
        \A d \in 1..Len(files) :
            LET rows == ItemRows(d)
            IN \A i, j \in 1..Len(rows) :
                  i < j => LineNumber(rows[i]) <= LineNumber(rows[j])

-----------------------------------------------------------------------------

\* t is the float x + y, by cross multiplication of the decimals
IsSumOf(t, x, y) ==
    /\ t[1] = "float"
    /\ t[2] * Pow10(x[3] + y[3]) = (x[2] * Pow10(y[3]) + y[2] * Pow10(x[3])) * Pow10(t[3])

\* C19: a record of items_navatec_cr or items_brujo_caribeno has Total_Linea =
\* Subtotal_Linea + Impuesto_Linea when both parsed to a number and Total_Linea
\* null when either is null; there is a record for every matching line,
\* whatever its amounts parse to.
C19_DerivedLineTotal ==
    (pc = "LinesExtracted" /\ branch \in {"NAVATEC", "BRUJO"}) =>
        /\ Len(items) = Cardinality({i \in 1..Len(text.lines) :
                                        branch \in text.lines[i].grammars})
        /\ \A i \in 1..Len(items) :
              LET r == items[i]
              IN IF r.Subtotal_Linea # None /\ r.Impuesto_Linea # None
                 THEN IsSumOf(r.Total_Linea, r.Subtotal_Linea, r.Impuesto_Linea)
                 ELSE r.Total_Linea = None

\* two records of one invoice: 1,000.5 + 2.6 = 1003.1, and a tax that did
\* not parse beside a subtotal that did
C19_Witness ==
    /\ pc = "LinesExtracted"
    /\ branch \in {"NAVATEC", "BRUJO"}
    /\ Len(items) = 2
    /\ items[1].Subtotal_Linea = Float(10005, 1)
    /\ items[1].Impuesto_Linea = Float(26, 1)
    /\ items[1].Total_Linea = Float(10031, 1)
    /\ items[2].Subtotal_Linea = Float(20, 0)
    /\ items[2].Impuesto_Linea = None
    /\ items[2].Total_Linea = None

-----------------------------------------------------------------------------
(* Properties of the multi-line item parsers, checked under SpecItems *)

\* the words of a line, split at white space
RECURSIVE Words(_)
Words(s) ==
    LET t == LStrip(s)
        n == IF \E k \in 1..Len(t) : t[k] = " "
             THEN CHOOSE k \in 1..Len(t) : t[k] = " " /\ \A h \in 1..(k - 1) : t[h] # " "
             ELSE Len(t) + 1
    IN IF t = <<>> THEN <<>>
       ELSE <<SubSeq(t, 1, n - 1)>> \o Words(SubSeq(t, n, Len(t)))

\* a word made of digits only, and how many
IsNumber(w) == \A k \in 1..Len(w) : w[k] \in Digits \cup {TenDigits}
NumDigits(w) ==
    Cardinality({k \in 1..Len(w) : w[k] \in Digits})
        + 10 * Cardinality({k \in 1..Len(w) : w[k] = TenDigits})

\* an item-header line: a line number, a numeric code (of ten digits or more
\* for TRIBU-CR) and a description
IsItemHeader(fn, ln) ==
    LET w == Words(ln)
    IN /\ Len(w) >= 3
       /\ IsNumber(w[1])
       /\ IsNumber(w[2])
       /\ fn = "TRIBU" => NumDigits(w[2]) >= 10

\* a terminator line: it begins with OBSERVACIONES (TRIBU-CR) or COMENTARIO
\* (CICLO HURACAN), in any case
IsTerminator(fn, ln) ==
    Head(ln) \in (IF fn = "TRIBU" THEN {"OBSERVACIONES", "Observaciones"}
                                  ELSE {"COMENTARIO", "Comentario"})

HeaderPositions == {p \in 1..Len(ln_list) : IsItemHeader(ml_fn, ln_list[p])}

Stops(q) ==
    q = Len(ln_list) + 1 \/ IsItemHeader(ml_fn, ln_list[q]) \/ IsTerminator(ml_fn, ln_list[q])

\* the first line after p that is an item header or a terminator, or the
\* end of the text
BlobEnd(p) ==
    CHOOSE q \in (p + 1)..(Len(ln_list) + 1) :
        Stops(q) /\ \A r \in (p + 1)..(q - 1) : ~Stops(r)

\* the lines that belong to the record opened at p
Owned(p) == (p + 1)..(BlobEnd(p) - 1)

RECURSIVE JoinLines(_, _)
JoinLines(lo, hi) ==
    IF lo > hi THEN <<>>
    ELSE IF lo = hi THEN ln_list[lo]
    ELSE ln_list[lo] \o <<" ">> \o JoinLines(lo + 1, hi)

\* the lines no record owns: those before the first item header and those
\* from a terminator up to the next item header
Orphans == (1..Len(ln_list)) \ (HeaderPositions \cup UNION {Owned(p) : p \in HeaderPositions})

\* what is left of the scan: it is positive while the parser runs and every
\* step of the parser makes it smaller
ScanLeft ==
    CASE ml_pc = "outer" -> 2 * (Len(ln_list) - ml_i) + 1
      [] ml_pc = "inner" -> 2 * (Len(ln_list) - ml_j) + 2
      [] OTHER           -> 0

\* C20: items_tribu_hacienda_cr and items_ciclo_huracan return one record per
\* item-header line, in the order of the lines; the lines after an item
\* header, up to the next item header or terminator line, make the blob of
\* its record and of no other; the lines from a terminator to the next item
\* header are in no record; item headers after a terminator still open
\* records; and the parser returns on every text: there is a number, positive
\* while the parser runs, that every step of its loops makes smaller.
C20_MultiLineScan ==
    /\ [](ml_pc = "returned" =>
            /\ Len(out) = Cardinality(HeaderPositions)
            /\ \A p \in HeaderPositions :
                  LET r == out[Cardinality({q \in HeaderPositions : q <= p})]
                  IN /\ r.Linea = Words(ln_list[p])[1]
                     /\ r.Descripcion_Raw =
                            ln_list[p] \o <<" ", "|", " ">> \o JoinLines(p + 1, BlobEnd(p) - 1)
            /\ \A p, q \in HeaderPositions : p # q => Owned(p) \cap Owned(q) = {})
    /\ [](ml_pc \in {"outer", "inner"} => ScanLeft > 0)
    /\ [][(ml_pc \in {"outer", "inner"}) => (ScanLeft' < ScanLeft)]_vars

\* a text of four lines: an item header, a line of its blob, a terminator
\* that is in no record, and an item header that opens the second record
C20_Witness ==
    /\ ml_pc = "returned"
    /\ Len(ln_list) = 4
    /\ HeaderPositions = {1, 4}
    /\ Owned(1) = {2}
    /\ IsTerminator(ml_fn, ln_list[3])
    /\ Orphans = {3}
    /\ Len(out) = 2
    /\ out[1].Linea # out[2].Linea

-----------------------------------------------------------------------------
(* Properties of the currency columns, checked under SpecCurrency *)

CurrencyPairs == { <<"CRC", "¢">>, <<"COP", "$">>, <<"", "">> }

\* the phrases that hold a literal the currency detector looks for
Indicators ==
    {" CRC", "Moneda: CRC", "Código Moneda........ CRC", "¢", " COP", "Pesos",
     "PESOS", "Bogotá - Colombia", "$"}

\* C21: in the returned header table every row that is not an ERROR row has
\* (Moneda, Simbolo_Moneda) equal to ("CRC", "¢"), ("COP", "$") or ("", "");
\* the pair is not empty when the document matched a template; it is empty
\* only for a document on the generic path whose text holds no currency
\* indicator.
C21_CurrencyBackfill ==
    pc = "Returned" =>
        \A i \in 1..Len(df_fin) :
            LET r    == df_fin[i]
                t    == files[fin_src[i]].content.text
                pair == <<r.Moneda, r.Simbolo_Moneda>>
            IN fin_src[i] \notin raised =>
                  /\ pair \in CurrencyPairs
                  /\ FirstMatch(t) \in Template => pair # <<"", "">>
                  /\ pair = <<"", "">> =>
                        /\ FirstMatch(t) \notin Template
                        /\ t.phrases \cap Indicators = {}

\* a template invoice with no currency indicator that got the default pair,
\* the text " crc" not being an indicator
C21_Witness ==
    /\ pc = "Returned"
    /\ Len(df_fin) = 1
    /\ raised = {}
    /\ FirstMatch(files[1].content.text) = "BRUJO"
    /\ files[1].content.text.phrases \cap CurrencyPhrases = {" crc", "Colones"}
    /\ df_fin[1].Moneda = "CRC"
    /\ df_fin[1].Simbolo_Moneda = "¢"

-----------------------------------------------------------------------------
(* The two returned tables together, checked under Spec *)

\* the columns a line row shares with the header row of its document
SharedCols == {"Documento", "Factura_Numero", "Moneda", "Pais"}

\* C22: in the returned tables every line row (an item, a no-lines marker or
\* an error marker) has a header row of the same document with the same
\* Documento, Factura_Numero, Moneda and Pais; in the line row of a failed
\* document Factura_Numero, Moneda and Pais are empty.
C22_ReferentialIntegrity ==
    pc = "Returned" =>
        \A j \in 1..Len(df_lines) :
            /\ \E i \in 1..Len(df_fin) :
                  /\ fin_src[i] = df_lines_src[j]
                  /\ \A c \in SharedCols : df_fin[i][c] = df_lines[j][c]
            /\ df_lines_src[j] \in raised =>
                  \A c \in SharedCols \ {"Documento"} : df_lines[j][c] = ""

\* a batch with an invoice that has items, an invoice with the no-lines
\* marker and a file that failed
C22_Witness ==
    /\ pc = "Returned"
    /\ Len(files) = 3
    /\ Cardinality(raised) = 1
    /\ \E j \in 1..Len(df_lines) :
          df_lines[j].Linea # "" /\ df_lines[j].Moneda = "CRC"
    /\ \E j \in 1..Len(df_lines) :
          df_lines[j].Descripcion_Raw = "SIN_LINEAS_DETECTADAS" /\ df_lines[j].Pais = "CO"
    /\ \E j \in 1..Len(df_lines) :
          df_lines_src[j] \in raised /\ df_lines[j].Documento = files[df_lines_src[j]].name

=============================================================================
